---- MODULE Spec2Model ----
(***************************************************************************)
(* A model of the zarr driver of tensorstore                               *)
(* (tensorstore/driver/zarr/driver.cc): the metadata cache / data cache    *)
(* split, metadata compatibility and resize, chunk storage keys, and the   *)
(* open path (Create, GetComponentIndex).                                  *)
(*                                                                         *)
(* The module holds several specifications over one list of variables.     *)
(* Each specification drives one group of variables and leaves the others  *)
(* at their idle values:                                                   *)
(*   SpecResize  calls of DataCache::GetResizedMetadata                    *)
(*   SpecSnap    metadata snapshots of a MetadataCache entry and of the    *)
(*               DataCache entry built from it                             *)
(*   SpecKey     DataCache::GetChunkStorageKey / EncodeChunkIndices        *)
(*   SpecOpen    concurrent opens sharing one metadata-cache entry         *)
(*   SpecCancel  the same, with callers that cancel                        *)
(*   SpecCreate  OpenState::Create and OpenState::GetComponentIndex        *)
(*   SpecBind    ZarrDriver::json_binder, the data cache key and           *)
(*               DataCache::GetBoundSpecData                               *)
(*   SpecCodec   MetadataCache::EncodeMetadata / DecodeMetadata            *)
(*   SpecFill    ZarrDriver::GetFillValue / SpecGetFillValue               *)
(*   SpecGrid    DataCache::GetChunkGridSpecification                      *)
(*   SpecRegistry  DriverRegistration and the lookup by driver id          *)
(*   SpecBounds  DataCache::GetChunkGridBounds                             *)
(*   SpecPromise RegisteredDriverSpec::DoOpen and the promise of its       *)
(*               DriverOpenState                                           *)
(***************************************************************************)
EXTENDS Integers, Sequences, FiniteSets, TLC

VARIABLES
    \* ---- SpecResize
    ndebug,        \* whether assert() is compiled out (NDEBUG)
    rzCurrent,     \* the metadata the next resize applies to
    rzCall,        \* the last GetResizedMetadata call: arguments and result
    \* ---- SpecSnap
    heap,          \* every ZarrMetadata object allocated so far (shared_ptr targets)
    mcEntry,       \* index in heap of the MetadataCache entry's current metadata
    dcInitial,     \* index in heap of DataCache::initial_metadata_
    handedOut,     \* snapshots handed to callers: (index, value at that time)
    lastCheck,     \* the last ValidateMetadataCompatibility call
    \* ---- SpecKey
    keyPrefix,     \* DataCache::key_prefix_
    keySep,        \* DataCache::dimension_separator_
    keyRank,       \* rank of the entry's metadata
    keyCall,       \* the last GetChunkStorageKey call: cell_indices and result
    \* ---- SpecOpen / SpecCancel
    callerState,   \* per caller: idle | waiting | done | cancelled
    callerSpec,    \* per caller: the spec it opens with
    callerResult,  \* per caller: the fetch it attached to, and whether it has the result
    entries,       \* metadata-cache entries by entry key
    fetchLog,      \* metadata fetches issued to the backing store, in order
    \* ---- SpecCreate
    request,       \* the spec of the open in progress
    stored,        \* the metadata stored at the location, or NoMetadata
    createResult,  \* result of the last OpenState::Create
    indexResult,   \* result of the last OpenState::GetComponentIndex
    \* ---- SpecBind
    cfgDoc,        \* the JSON spec a caller opens with
    cfgSpec,       \* result of loading cfgDoc through ZarrDriver::json_binder
    cfgStored,     \* the metadata stored at the location
    cfgCache,      \* the DataCache of the open driver, with its cache key
    cfgReopen,     \* the bound spec of the driver, reloaded, and its cache key
    \* ---- SpecCodec
    mdBlob,        \* the bytes stored under the metadata storage key
    mdEntry,       \* the MetadataCache entry: Unpopulated, or its metadata
    mdCall,        \* the last EncodeMetadata / DecodeMetadata call
    \* ---- SpecFill
    fvDriver,      \* an open driver: initial_metadata_ and component_index
    fvSpec,        \* a SpecData: schema fill value, partial metadata, selected field
    fvCall,        \* the last GetFillValue / SpecGetFillValue call
    \* ---- SpecGrid
    gridMetadata,  \* the metadata a DataCache is being constructed from
    gridCall,      \* the last GetChunkGridSpecification call
    \* ---- SpecRegistry
    registry,      \* the driver registry: registered id -> binder
    regLog,        \* the driver classes whose registration ran, in order
    regCall,       \* the last registration or lookup
    \* ---- SpecBounds
    bdBounds,      \* the caller's bounds and implicit-bound buffers
    bdCall,        \* the last GetChunkGridBounds call
    \* ---- SpecPromise
    prSetCommits,  \* whether Promise::SetResult marks the promise ready at once
    prShared       \* the state shared by the promise and the future of one DoOpen

resizeVars == <<ndebug, rzCurrent, rzCall>>
snapVars == <<heap, mcEntry, dcInitial, handedOut, lastCheck>>
keyVars == <<keyPrefix, keySep, keyRank, keyCall>>
openVars == <<callerState, callerSpec, callerResult, entries, fetchLog>>
createVars == <<request, stored, createResult, indexResult>>
bindVars == <<cfgDoc, cfgSpec, cfgStored, cfgCache, cfgReopen>>
codecVars == <<mdBlob, mdEntry, mdCall>>
fillVars == <<fvDriver, fvSpec, fvCall>>
gridVars == <<gridMetadata, gridCall>>
regVars == <<registry, regLog, regCall>>
boundsVars == <<bdBounds, bdCall>>
promiseVars == <<prSetCommits, prShared>>
\* The groups of the metadata, key and open specifications, and the groups of
\* the spec binding, codec, fill value, grid, registry and bounds ones.
coreVars == <<resizeVars, snapVars, keyVars, openVars, createVars>>
extVars == <<bindVars, codecVars, fillVars, gridVars, regVars, boundsVars, promiseVars>>
vars == <<coreVars, extVars>>

(***************************************************************************)
(* Bounds of the model.                                                    *)
(***************************************************************************)
MaxRank == 2
MaxSnapshots == 3
NumCallers == 3

\* Extents a resize request or a stored shape may name.
Extents == {4, 8}
\* Chunk sizes.
ChunkSizes == {2, 4}

\* std::numeric_limits<Index>::min() in the source; any value that is no
\* valid extent serves, the code only compares against it.
kImplicit == -1000000

None == "none"

(***************************************************************************)
(* ZarrMetadata.                                                           *)
(***************************************************************************)
\* The dtypes of the model: two single-field dtypes and one structured dtype.
Dtypes == {"<f4", "<i4", "[x:<f4,y:<i4]"}

\* metadata.dtype.fields: name, element dtype and field_shape of each field.
DtypeFields(dtype) ==
    CASE dtype = "<f4" -> <<[name |-> "", dtype |-> "float32", field_shape |-> <<>>]>>
      [] dtype = "<i4" -> <<[name |-> "", dtype |-> "int32", field_shape |-> <<>>]>>
      [] dtype = "[x:<f4,y:<i4]" ->
            <<[name |-> "x", dtype |-> "float32", field_shape |-> <<>>],
              [name |-> "y", dtype |-> "int32", field_shape |-> <<>>]>>
      [] dtype = "[v:<i2(3)]" ->
            <<[name |-> "v", dtype |-> "int16", field_shape |-> <<3>>]>>

NoMetadata == [absent |-> TRUE]

IsMetadata(m) == "absent" \notin DOMAIN m

\* A SharedArray<const void>: whether it holds data, its shape and its byte
\* strides. A default-constructed one holds nothing and has rank 0.
NoArray == [valid |-> FALSE, shape |-> <<>>, byte_strides |-> <<>>]

\* metadata.fill_value holds one array per field; a field without a declared
\* fill value has an array that is not valid().
ZarrMetadata(shape, chunks, dtype, sep) ==
    [rank |-> Len(shape), zarr_format |-> 2, shape |-> shape, chunks |-> chunks,
     dtype |-> dtype, compressor |-> "blosc", filters |-> None, order |-> "C",
     fill_value |-> [i \in 1..Len(DtypeFields(dtype)) |-> NoArray],
     dimension_separator |-> sep]

Tuples(n, S) == [1..n -> S]

\* The metadata a store may hold when it is first opened.
InitialMetadata ==
    UNION {{ZarrMetadata([i \in 1..r |-> 4], [i \in 1..r |-> 2], d, None) :
              d \in Dtypes} : r \in 0..MaxRank}

(***************************************************************************)
(* DataCache::GetResizedMetadata.                                          *)
(***************************************************************************)
ExplicitIndexOr(index, default) == IF index = kImplicit THEN default ELSE index

\* The loop without its `if (new_size == kImplicit) continue`.
ResizedShapeNoSkip(shape, new_exclusive_max) ==
    [i \in 1..Len(shape) |-> new_exclusive_max[i]]

\* The loop body's assignment: shape[i] = new_size unless new_size is kImplicit.
ResizedShape(shape, new_exclusive_max) ==
    [i \in 1..Len(shape) |->
        IF new_exclusive_max[i] = kImplicit THEN shape[i] ELSE new_exclusive_max[i]]

\* The assert without ExplicitIndexOr: assert(new_inclusive_min[i] == 0).
ResizeAssertionsExplicitOnly(existing, new_inclusive_min) ==
    \A i \in 1..Len(existing.shape) : new_inclusive_min[i] = 0

\* assert(ExplicitIndexOr(new_inclusive_min[i], 0) == 0), for every i.
ResizeAssertionsHold(existing, new_inclusive_min) ==
    \A i \in 1..Len(existing.shape) : ExplicitIndexOr(new_inclusive_min[i], 0) = 0

\* A resize that writes the new sizes to chunks as well as to shape.
GetResizedMetadataAndChunks(existing, new_inclusive_min, new_exclusive_max, nd) ==
    IF ~nd /\ ~ResizeAssertionsHold(existing, new_inclusive_min)
    THEN [status |-> "abort", metadata |-> NoMetadata]
    ELSE [status |-> "ok",
          metadata |-> [existing EXCEPT
                          !.shape = ResizedShape(existing.shape, new_exclusive_max),
                          !.chunks = ResizedShape(existing.chunks, new_exclusive_max)]]

\* A build with assertions aborts the process on a failed assert; in an NDEBUG
\* build the asserts are compiled out and the loop runs regardless.
GetResizedMetadata(existing, new_inclusive_min, new_exclusive_max, nd) ==
    IF ~nd /\ ~ResizeAssertionsHold(existing, new_inclusive_min)
    THEN [status |-> "abort", metadata |-> NoMetadata]
    ELSE [status |-> "ok",
          metadata |-> [existing EXCEPT !.shape = ResizedShape(existing.shape, new_exclusive_max)]]

(***************************************************************************)
(* Idle values: what a specification leaves the other groups at.           *)
(***************************************************************************)
NoCall == [absent |-> TRUE]

IsCall(c) == "absent" \notin DOMAIN c

IdleResize == ndebug = FALSE /\ rzCurrent = NoMetadata /\ rzCall = NoCall

IdleSnap ==
    /\ heap = <<>>
    /\ mcEntry = 0
    /\ dcInitial = 0
    /\ handedOut = {}
    /\ lastCheck = NoCall

IdleKey == keyPrefix = <<>> /\ keySep = None /\ keyRank = 0 /\ keyCall = NoCall

IdleOpen ==
    /\ callerState = <<>>
    /\ callerSpec = <<>>
    /\ callerResult = <<>>
    /\ entries = {}
    /\ fetchLog = <<>>

IdleCreate ==
    /\ request = NoCall
    /\ stored = NoMetadata
    /\ createResult = NoCall
    /\ indexResult = NoCall

IdleBind ==
    /\ cfgDoc = NoCall
    /\ cfgSpec = NoCall
    /\ cfgStored = NoMetadata
    /\ cfgCache = NoCall
    /\ cfgReopen = NoCall

IdleCodec == mdBlob = NoCall /\ mdEntry = NoMetadata /\ mdCall = NoCall

IdleFill == fvDriver = NoCall /\ fvSpec = NoCall /\ fvCall = NoCall

IdleGrid == gridMetadata = NoMetadata /\ gridCall = NoCall

IdleRegistry == registry = {} /\ regLog = <<>> /\ regCall = NoCall

IdleBounds == bdBounds = NoCall /\ bdCall = NoCall

IdlePromise == prSetCommits = FALSE /\ prShared = NoCall

IdleCore == IdleResize /\ IdleSnap /\ IdleKey /\ IdleOpen /\ IdleCreate

IdleExt ==
    IdleBind /\ IdleCodec /\ IdleFill /\ IdleGrid /\ IdleRegistry /\ IdleBounds /\ IdlePromise

(***************************************************************************)
(* SpecResize: a sequence of GetResizedMetadata calls, each applied to the *)
(* metadata the previous one returned.                                     *)
(***************************************************************************)
\* The inclusive mins a caller may pass for a given rank: all zero, all
\* implicit, or an explicit non-zero origin in one dimension.
InclusiveMins(rank) ==
    {[i \in 1..rank |-> 0], [i \in 1..rank |-> kImplicit]}
    \cup {[i \in 1..rank |-> IF i = d THEN 1 ELSE 0] : d \in 1..rank}

ExclusiveMaxes == Extents \cup {kImplicit}

InitResize ==
    /\ ndebug \in BOOLEAN
    /\ rzCurrent \in InitialMetadata
    /\ rzCall = NoCall
    /\ IdleSnap /\ IdleKey /\ IdleOpen /\ IdleCreate /\ IdleExt

\* One call of GetResizedMetadata. A failed assert ends the process: nothing
\* runs after it.
Resize(new_inclusive_min, new_exclusive_max) ==
    /\ IsCall(rzCall) => rzCall.result.status = "ok"
    /\ LET result == GetResizedMetadata(rzCurrent, new_inclusive_min,
                                        new_exclusive_max, ndebug)
       IN /\ rzCall' = [existing |-> rzCurrent,
                        new_inclusive_min |-> new_inclusive_min,
                        new_exclusive_max |-> new_exclusive_max,
                        result |-> result]
          /\ rzCurrent' = IF result.status = "ok" THEN result.metadata ELSE rzCurrent
    /\ UNCHANGED <<ndebug, snapVars, keyVars, openVars, createVars, extVars>>

NextResize ==
    \E new_inclusive_min \in InclusiveMins(Len(rzCurrent.shape)),
       new_exclusive_max \in Tuples(Len(rzCurrent.shape), ExclusiveMaxes) :
        Resize(new_inclusive_min, new_exclusive_max)

SpecResize == InitResize /\ [][NextResize]_vars

\* The fields of ZarrMetadata other than shape.
NonShapeFields ==
    {"rank", "zarr_format", "chunks", "dtype", "compressor", "filters", "order",
     "fill_value", "dimension_separator"}

\* C4: the metadata GetResizedMetadata returns has, in every dimension i, the
\* existing extent where new_exclusive_max[i] is the implicit sentinel and
\* new_exclusive_max[i] otherwise (so an all-implicit request leaves the shape
\* unchanged), and every field other than shape is that of the existing metadata.
ResizedShapeAndFrame ==
    (IsCall(rzCall) /\ rzCall.result.status = "ok") =>
        LET old == rzCall.existing
            new == rzCall.result.metadata
            max == rzCall.new_exclusive_max
        IN /\ Len(new.shape) = Len(old.shape)
           /\ \A i \in 1..Len(old.shape) :
                 /\ max[i] = kImplicit => new.shape[i] = old.shape[i]
                 /\ max[i] # kImplicit => new.shape[i] = max[i]
           /\ (\A i \in 1..Len(old.shape) : max[i] = kImplicit) => new.shape = old.shape
           /\ \A f \in NonShapeFields : new[f] = old[f]

\* C4 witness: a rank-2 resize of shape [4,4] with dimension 1 left implicit and
\* dimension 2 set to 8 has returned shape [4,8].
ResizedOneDimension ==
    /\ IsCall(rzCall)
    /\ rzCall.result.status = "ok"
    /\ rzCall.existing.shape = <<4, 4>>
    /\ rzCall.new_exclusive_max = <<kImplicit, 8>>
    /\ rzCall.result.metadata.shape = <<4, 8>>

\* C5 as stated: a request whose inclusive min is not zero in some dimension
\* produces no resized metadata.
NonZeroMinProducesNothing ==
    (IsCall(rzCall) /\ \E i \in 1..Len(rzCall.existing.shape) :
                            rzCall.new_inclusive_min[i] # 0)
        => ~IsMetadata(rzCall.result.metadata)

\* C5 amended: in a build with assertions, a request whose inclusive min is, in
\* some dimension, neither zero nor the implicit sentinel aborts and produces no
\* metadata; an implicit inclusive min counts as zero and is accepted; in an
\* NDEBUG build the inclusive min is not examined and metadata is produced.
ExplicitNonZeroMinAborts ==
    IsCall(rzCall) =>
        LET explicitNonZero ==
                \E i \in 1..Len(rzCall.existing.shape) :
                    rzCall.new_inclusive_min[i] \notin {0, kImplicit}
        IN /\ (~ndebug /\ explicitNonZero) =>
                (rzCall.result.status = "abort" /\ ~IsMetadata(rzCall.result.metadata))
           /\ (ndebug \/ ~explicitNonZero) =>
                (rzCall.result.status = "ok" /\ IsMetadata(rzCall.result.metadata))

\* C5 witness: with assertions on, a request with inclusive min 1 in the second
\* of two dimensions has aborted.
AbortedOnNonZeroMin ==
    /\ IsCall(rzCall)
    /\ ~ndebug
    /\ rzCall.new_inclusive_min = <<0, 1>>
    /\ rzCall.result.status = "abort"

(***************************************************************************)
(* DataCache::ValidateMetadataCompatibility.                               *)
(***************************************************************************)
\* IsMetadataCompatible (tensorstore/driver/zarr/metadata.cc): the two
\* metadata agree on rank, chunk shape and field layout.
IsMetadataCompatible(a, b) ==
    /\ a.rank = b.rank
    /\ a.chunks = b.chunks
    /\ DtypeFields(a.dtype) = DtypeFields(b.dtype)

AlwaysCompatible(existing_metadata, new_metadata) == [code |-> "ok"]

ValidateMetadataCompatibility(existing_metadata, new_metadata) ==
    IF IsMetadataCompatible(existing_metadata, new_metadata)
    THEN [code |-> "ok"]
    ELSE [code |-> "failed_precondition"]

(***************************************************************************)
(* SpecSnap: the ZarrMetadata objects behind one storage entry. heap holds *)
(* every object allocated; the MetadataCache entry and the DataCache entry *)
(* each hold a pointer (an index) to one of them.                          *)
(***************************************************************************)
Snapshot(meta, origin, parent) == [meta |-> meta, origin |-> origin, parent |-> parent]

\* A resize that wrote through the existing pointer instead of copying.
AllocateResizedInPlace(h, existing, new_inclusive_min, new_exclusive_max, nd) ==
    LET new_metadata == GetResizedMetadata(h[existing].meta, new_inclusive_min,
                                           new_exclusive_max, nd).metadata
    IN Append([h EXCEPT ![existing].meta = new_metadata],
              Snapshot(new_metadata, "resized", existing))

\* GetResizedMetadata on the heap: make_shared<ZarrMetadata>(*existing) allocates
\* a copy, the loop writes to the copy only, and the copy is returned.
AllocateResized(h, existing, new_inclusive_min, new_exclusive_max, nd) ==
    Append(h, Snapshot(GetResizedMetadata(h[existing].meta, new_inclusive_min,
                                          new_exclusive_max, nd).metadata,
                       "resized", existing))

\* What another writer may have stored since the entry was last read: one
\* extent, one chunk size, the dtype or the rank changed.
ForeignUpdates(m) ==
    UNION {{[m EXCEPT !.shape[i] = e] : e \in Extents \ {m.shape[i]}} : i \in 1..m.rank}
    \cup UNION {{[m EXCEPT !.chunks[i] = c] : c \in ChunkSizes \ {m.chunks[i]}} :
                   i \in 1..m.rank}
    \cup {[m EXCEPT !.dtype = d] : d \in Dtypes \ {m.dtype}}
    \cup (IF m.rank < MaxRank
          THEN {[m EXCEPT !.rank = m.rank + 1, !.shape = Append(m.shape, 4),
                          !.chunks = Append(m.chunks, 2)]}
          ELSE {})
    \cup (IF m.rank > 0
          THEN {[m EXCEPT !.rank = m.rank - 1,
                          !.shape = SubSeq(m.shape, 1, m.rank - 1),
                          !.chunks = SubSeq(m.chunks, 1, m.rank - 1)]}
          ELSE {})

CheckCall(existing, new) ==
    [existing |-> existing, new |-> new,
     status |-> ValidateMetadataCompatibility(existing, new)]

InitSnap ==
    /\ \E m \in InitialMetadata :
          /\ heap = <<Snapshot(m, "opened", 0)>>
          /\ handedOut = {[id |-> 1, value |-> m]}
    /\ mcEntry = 1
    /\ dcInitial = 1
    /\ lastCheck = NoCall
    /\ IdleResize /\ IdleKey /\ IdleOpen /\ IdleCreate /\ IdleExt

\* A resize through the DataCache entry: the metadata the MetadataCache entry
\* holds is validated against initial_metadata_, then resized, and the result
\* becomes the entry's metadata. An incompatible entry fails the resize.
SnapResize(new_exclusive_max) ==
    /\ Len(heap) < MaxSnapshots
    /\ LET check == CheckCall(heap[dcInitial].meta, heap[mcEntry].meta)
           zero == [i \in 1..Len(new_exclusive_max) |-> 0]
       IN /\ lastCheck' = check
          /\ IF check.status.code = "ok"
             THEN /\ heap' = AllocateResized(heap, mcEntry, zero, new_exclusive_max, ndebug)
                  /\ mcEntry' = Len(heap) + 1
                  /\ handedOut' = handedOut \cup
                        {[id |-> Len(heap) + 1, value |-> heap'[Len(heap) + 1].meta]}
             ELSE UNCHANGED <<heap, mcEntry, handedOut>>
    /\ UNCHANGED <<dcInitial, resizeVars, keyVars, openVars, createVars, extVars>>

\* The MetadataCache entry is re-read after another writer changed the stored
\* metadata: a new snapshot is installed and checked against initial_metadata_.
SnapRefresh(new_metadata) ==
    /\ Len(heap) < MaxSnapshots
    /\ heap' = Append(heap, Snapshot(new_metadata, "refreshed", mcEntry))
    /\ mcEntry' = Len(heap) + 1
    /\ handedOut' = handedOut \cup {[id |-> Len(heap) + 1, value |-> new_metadata]}
    /\ lastCheck' = CheckCall(heap[dcInitial].meta, new_metadata)
    /\ UNCHANGED <<dcInitial, resizeVars, keyVars, openVars, createVars, extVars>>

\* The store is opened again: a DataCache entry is built from the metadata the
\* MetadataCache entry holds now.
SnapReopen ==
    /\ dcInitial # mcEntry
    /\ dcInitial' = mcEntry
    /\ UNCHANGED <<heap, mcEntry, handedOut, lastCheck, resizeVars, keyVars,
                   openVars, createVars, extVars>>

NextSnap ==
    \/ \E new_exclusive_max \in Tuples(Len(heap[mcEntry].meta.shape), ExclusiveMaxes) :
          SnapResize(new_exclusive_max)
    \/ \E new_metadata \in ForeignUpdates(heap[mcEntry].meta) : SnapRefresh(new_metadata)
    \/ SnapReopen

SpecSnap == InitSnap /\ [][NextSnap]_vars

SameStructure(a, b) ==
    /\ Len(a.shape) = Len(b.shape)
    /\ a.chunks = b.chunks
    /\ a.dtype = b.dtype

SnapshotsNeverMutated ==
    /\ \A h \in handedOut : heap[h.id].meta = h.value
    /\ \E h \in handedOut : h.id = dcInitial /\ heap[dcInitial].meta = h.value

\* C3 witness: the DataCache entry still holds the first snapshot, unchanged,
\* after a resize and a refresh installed two newer, different ones.
StaleEntryAfterResizeAndRefresh ==
    /\ Len(heap) = 3
    /\ dcInitial = 1
    /\ mcEntry = 3
    /\ heap[2].origin = "resized"
    /\ heap[3].origin = "refreshed"
    /\ heap[2].meta # heap[1].meta
    /\ heap[3].meta # heap[1].meta

RECURSIVE ResizedFrom(_, _)
\* Snapshot k was derived from snapshot root by resizes only.
ResizedFrom(k, root) ==
    \/ k = root
    \/ /\ k > root
       /\ heap[k].origin = "resized"
       /\ ResizedFrom(heap[k].parent, root)

\* C6: every metadata derived by resizes from the metadata the DataCache entry
\* was built from passes ValidateMetadataCompatibility against it; the entry
\* keeps its own (stale) shape meanwhile; and a check of metadata whose rank,
\* chunk shape or fields differ fails.
ResizesStayCompatible ==
    /\ \A k \in 1..Len(heap) :
          ResizedFrom(k, dcInitial) =>
              /\ ValidateMetadataCompatibility(heap[dcInitial].meta, heap[k].meta).code = "ok"
              /\ \A h \in handedOut : h.id = dcInitial => heap[dcInitial].meta.shape = h.value.shape
    /\ (IsCall(lastCheck) /\ ~SameStructure(lastCheck.existing, lastCheck.new)) =>
          lastCheck.status.code = "failed_precondition"

\* C6 witness: two resizes took shape [4,4] to [4,8] and on to [8,8] while the
\* DataCache entry stayed on [4,4].
TwoResizesFromInitial ==
    /\ Len(heap) = 3
    /\ dcInitial = 1
    /\ ResizedFrom(3, 1)
    /\ heap[1].meta.shape = <<4, 4>>
    /\ heap[2].meta.shape = <<4, 8>>
    /\ heap[3].meta.shape = <<8, 8>>

(***************************************************************************)
(* Chunk storage keys. A string is a sequence of one-character strings.    *)
(***************************************************************************)
DigitChars == <<"0", "1", "2", "3", "4", "5", "6", "7", "8", "9">>

RECURSIVE FormatNonNegative(_)
FormatNonNegative(n) ==
    IF n < 10 THEN <<DigitChars[n + 1]>>
    ELSE FormatNonNegative(n \div 10) \o <<DigitChars[(n % 10) + 1]>>

\* StrAppend of an Index: its decimal digits, after a '-' if it is negative.
FormatIndex(n) == IF n < 0 THEN <<"-">> \o FormatNonNegative(-n) ELSE FormatNonNegative(n)

DimensionSeparators == {"kDotSeparated", "kSlashSeparated"}

GetDimensionSeparatorChar(dimension_separator) ==
    IF dimension_separator = "kDotSeparated" THEN "." ELSE "/"

RECURSIVE EncodeNoSeparator(_, _)
\* The loop with StrAppend(&key, indices[i]) in both branches.
EncodeNoSeparator(indices, dimension_separator) ==
    IF indices = <<>> THEN <<>>
    ELSE EncodeNoSeparator(SubSeq(indices, 1, Len(indices) - 1), dimension_separator)
            \o FormatIndex(indices[Len(indices)])

RECURSIVE EncodeChunkIndices(_, _)
\* key after the loop has run over indices[0 .. n-1]: the key for the first
\* n-1 indices, then (unless i = 0) the separator, then indices[n-1].
EncodeChunkIndices(indices, dimension_separator) ==
    IF indices = <<>> THEN <<>>
    ELSE LET i == Len(indices)
             key == EncodeChunkIndices(SubSeq(indices, 1, i - 1), dimension_separator)
         IN IF i # 1
            THEN key \o <<GetDimensionSeparatorChar(dimension_separator)>>
                     \o FormatIndex(indices[i])
            ELSE key \o FormatIndex(indices[i])

GetChunkStorageKey(key_prefix, cell_indices, dimension_separator) ==
    key_prefix \o EncodeChunkIndices(cell_indices, dimension_separator)

\* The reverse of the join: the pieces of s between occurrences of c (no piece
\* for the empty string).
RECURSIVE SplitOn(_, _, _)
SplitOn(s, c, piece) ==
    IF s = <<>> THEN <<piece>>
    ELSE IF Head(s) = c THEN <<piece>> \o SplitOn(Tail(s), c, <<>>)
    ELSE SplitOn(Tail(s), c, Append(piece, Head(s)))

DigitValue(ch) == CHOOSE d \in 0..9 : DigitChars[d + 1] = ch

RECURSIVE ParseNonNegative(_)
ParseNonNegative(chars) ==
    IF chars = <<>> THEN 0
    ELSE 10 * ParseNonNegative(SubSeq(chars, 1, Len(chars) - 1))
            + DigitValue(chars[Len(chars)])

ParseIndex(chars) ==
    IF chars # <<>> /\ Head(chars) = "-" THEN 0 - ParseNonNegative(Tail(chars))
    ELSE ParseNonNegative(chars)

\* Strip the prefix, split on the separator, parse each piece.
DecodeChunkStorageKey(key, key_prefix, dimension_separator) ==
    LET rest == SubSeq(key, Len(key_prefix) + 1, Len(key))
        pieces == IF rest = <<>> THEN <<>>
                  ELSE SplitOn(rest, GetDimensionSeparatorChar(dimension_separator), <<>>)
    IN [i \in 1..Len(pieces) |-> ParseIndex(pieces[i])]

\* Key prefixes (store paths): empty, a directory, and two that end in
\* characters a key body also uses.
KeyPrefixes == {<<>>, <<"a", "/">>, <<"1", ".">>, <<"x", "1">>}

\* Cell indices: one and two digits, chosen so that digit strings can run
\* together (1,10 and 11,0).
CellIndices == {0, 1, 2, 10, 11, 21}

InitKey ==
    /\ keyPrefix \in KeyPrefixes
    /\ keySep \in DimensionSeparators
    /\ keyRank \in 0..MaxRank
    /\ keyCall = NoCall
    /\ IdleResize /\ IdleSnap /\ IdleOpen /\ IdleCreate /\ IdleExt

\* DataCache::GetChunkStorageKey for one cell of the entry's grid.
GetKey(cell_indices) ==
    /\ keyCall' = [cell_indices |-> cell_indices,
                   key |-> GetChunkStorageKey(keyPrefix, cell_indices, keySep)]
    /\ UNCHANGED <<keyPrefix, keySep, keyRank, resizeVars, snapVars, openVars, createVars, extVars>>

NextKey == \E cell_indices \in Tuples(keyRank, CellIndices) : GetKey(cell_indices)

SpecKey == InitKey /\ [][NextKey]_vars

\* C7: for the entry's prefix and separator, decoding a chunk storage key gives
\* back the cell indices it was made from, and no other index tuple of the
\* entry's rank has the same key.
ChunkKeyInjectiveAndReversible ==
    IsCall(keyCall) =>
        /\ DecodeChunkStorageKey(keyCall.key, keyPrefix, keySep) = keyCall.cell_indices
        /\ \A other \in Tuples(keyRank, CellIndices) :
              GetChunkStorageKey(keyPrefix, other, keySep) = keyCall.key
                  => other = keyCall.cell_indices

\* C7 witness: the key of cell (1, 10) under prefix "1." with the dot separator
\* is "1.1.10".
KeyOfTwoDigitCell ==
    /\ IsCall(keyCall)
    /\ keyPrefix = <<"1", ".">>
    /\ keySep = "kDotSeparated"
    /\ keyCall.cell_indices = <<1, 10>>
    /\ keyCall.key = <<"1", ".", "1", ".", "1", "0">>

(***************************************************************************)
(* SpecOpen / SpecCancel: callers opening storage locations through the    *)
(* metadata cache. The cache holds at most one entry per entry key; an     *)
(* entry is created by the first open of its key, which issues the read of *)
(* the metadata blob, and later opens attach to it.                        *)
(***************************************************************************)
Callers == 1..NumCallers

kZarrMetadataKey == <<".", "z", "a", "r", "r", "a", "y">>

\* The specs callers open with: a store path and a selected field.
OpenSpecs ==
    [store_path : {<<"a", "/">>, <<"b", "/">>}, selected_field : {"", "x"}]

\* An entry key that also depends on the selected field.
EntryKeyWithField(spec) == spec.store_path \o <<spec.selected_field>>

\* OpenState::GetMetadataCacheEntryKey: the store path.
GetMetadataCacheEntryKey(spec) == spec.store_path

\* A storage key without the kZarrMetadataKey suffix.
GetMetadataStorageKeyBare(entry_key) == entry_key

\* MetadataCache::GetMetadataStorageKey.
GetMetadataStorageKey(entry_key) == entry_key \o kZarrMetadataKey

EntryFor(key) == {e \in entries : e.key = key}

\* Interest in an in-flight creation is counted: cancelling on the first
\* waiter that leaves.
CancelOnAnyWaiter(interest) == TRUE

\* The underlying read is cancelled when no waiter is interested any more.
ShouldCancelCreation(interest) == interest = {}

InitOpen ==
    /\ callerState = [c \in Callers |-> "idle"]
    /\ callerSpec = [c \in Callers |-> NoCall]
    /\ callerResult = [c \in Callers |-> NoCall]
    /\ entries = {}
    /\ fetchLog = <<>>
    /\ IdleResize /\ IdleSnap /\ IdleKey /\ IdleCreate /\ IdleExt

\* Caller c opens spec: the entry for its key is looked up; a missing entry is
\* created and its metadata read issued; an in-flight entry gets one more
\* waiter; a populated entry resolves the open at once.
Open(c, spec) ==
    /\ callerState[c] = "idle"
    /\ callerSpec' = [callerSpec EXCEPT ![c] = spec]
    /\ LET key == GetMetadataCacheEntryKey(spec)
           found == EntryFor(key)
       IN IF found = {}
          THEN /\ fetchLog' = Append(fetchLog, [storage_key |-> GetMetadataStorageKey(key),
                                                state |-> "running"])
               /\ entries' = entries \cup {[key |-> key, state |-> "inflight",
                                            interest |-> {c}, fetch |-> Len(fetchLog) + 1]}
               /\ callerState' = [callerState EXCEPT ![c] = "waiting"]
               /\ callerResult' = [callerResult EXCEPT
                                     ![c] = [fetch |-> Len(fetchLog) + 1, ready |-> FALSE]]
          ELSE LET e == CHOOSE x \in found : TRUE
               IN /\ UNCHANGED fetchLog
                  /\ IF e.state = "inflight"
                     THEN /\ entries' = (entries \ {e}) \cup
                                           {[e EXCEPT !.interest = e.interest \cup {c}]}
                          /\ callerState' = [callerState EXCEPT ![c] = "waiting"]
                          /\ callerResult' = [callerResult EXCEPT
                                                ![c] = [fetch |-> e.fetch, ready |-> FALSE]]
                     ELSE /\ UNCHANGED entries
                          /\ callerState' = [callerState EXCEPT ![c] = "done"]
                          /\ callerResult' = [callerResult EXCEPT
                                                ![c] = [fetch |-> e.fetch, ready |-> TRUE]]
    /\ UNCHANGED <<resizeVars, snapVars, keyVars, createVars, extVars>>

\* The read of entry e completes: the entry is populated and every waiter
\* still interested resolves from its result.
FetchComplete(e) ==
    /\ e.state = "inflight"
    /\ fetchLog' = [fetchLog EXCEPT ![e.fetch].state = "complete"]
    /\ entries' = (entries \ {e}) \cup {[e EXCEPT !.state = "populated", !.interest = {}]}
    /\ callerState' = [c \in Callers |->
                          IF c \in e.interest THEN "done" ELSE callerState[c]]
    /\ callerResult' = [c \in Callers |->
                          IF c \in e.interest THEN [fetch |-> e.fetch, ready |-> TRUE]
                          ELSE callerResult[c]]
    /\ UNCHANGED <<callerSpec, resizeVars, snapVars, keyVars, createVars, extVars>>

\* Waiter c of in-flight entry e cancels: its interest is dropped, and the
\* read is cancelled (and the entry removed) if nobody is left.
Cancel(c, e) ==
    /\ callerState[c] = "waiting"
    /\ c \in e.interest
    /\ callerState' = [callerState EXCEPT ![c] = "cancelled"]
    /\ LET interest == e.interest \ {c}
       IN IF ShouldCancelCreation(interest)
          THEN /\ entries' = entries \ {e}
               /\ fetchLog' = [fetchLog EXCEPT ![e.fetch].state = "cancelled"]
          ELSE /\ entries' = (entries \ {e}) \cup {[e EXCEPT !.interest = interest]}
               /\ UNCHANGED fetchLog
    /\ UNCHANGED <<callerSpec, callerResult, resizeVars, snapVars, keyVars, createVars, extVars>>

NextOpen ==
    \/ \E c \in Callers, spec \in OpenSpecs : Open(c, spec)
    \/ \E e \in entries : FetchComplete(e)

NextCancel ==
    \/ NextOpen
    \/ \E c \in Callers, e \in entries : Cancel(c, e)

SpecOpen == InitOpen /\ [][NextOpen]_vars

SpecCancel == InitOpen /\ [][NextCancel]_vars

\* The callers that have opened store path p.
Openers(p) == {c \in Callers : callerState[c] # "idle" /\ callerSpec[c].store_path = p}

\* The reads issued for the metadata blob of store path p.
FetchesOf(p) == {f \in 1..Len(fetchLog) : fetchLog[f].storage_key = p \o kZarrMetadataKey}

Attached(f) == {c \in Callers : IsCall(callerResult[c]) /\ callerResult[c].fetch = f}

\* C8: a shared creation's read is never cancelled while a waiter is still
\* interested: a waiting caller's read is running; a read is cancelled only
\* when every caller attached to it has cancelled, and then it is; and when a
\* read completes every attached caller that did not cancel has its result.
CancelledOnlyByLastWaiter ==
    \A f \in 1..Len(fetchLog) :
        /\ \A c \in Attached(f) : callerState[c] = "waiting" => fetchLog[f].state = "running"
        /\ fetchLog[f].state = "cancelled" <=>
              (\A c \in Attached(f) : callerState[c] = "cancelled")
        /\ fetchLog[f].state = "complete" =>
              \A c \in Attached(f) :
                  callerState[c] # "cancelled" => (callerState[c] = "done" /\ callerResult[c].ready)

\* C8 witness: of the waiters sharing read 1, one cancelled and the read went
\* on to complete and resolve another.
WaiterResolvedAfterOtherCancelled ==
    /\ Len(fetchLog) >= 1
    /\ fetchLog[1].state = "complete"
    /\ \E c, d \in Attached(1) :
          /\ callerState[c] = "cancelled"
          /\ callerState[d] = "done"
          /\ callerResult[d].ready

(***************************************************************************)
(* SpecCreate: OpenState::Create and OpenState::GetComponentIndex against  *)
(* the metadata stored at one location.                                    *)
(***************************************************************************)
\* std::optional: the empty set when unset, a singleton when set.
Unset == {}

Some(v) == {v}

Has(o) == o # {}

Get(o) == CHOOSE v \in o : TRUE

PartialMetadata(rank, shape, chunks, dtype) ==
    [rank |-> rank, shape |-> shape, chunks |-> chunks, dtype |-> dtype]

\* The "metadata" members callers give: none; the rank-2 float32 store; the
\* same as int32; a rank-1 structured store; two that contradict themselves;
\* a dtype alone.
PartialMetadatas ==
    {PartialMetadata(Unset, Unset, Unset, Unset),
     PartialMetadata(Some(2), Some(<<4, 4>>), Some(<<2, 2>>), Some("<f4")),
     PartialMetadata(Unset, Some(<<4, 4>>), Some(<<2, 2>>), Some("<i4")),
     PartialMetadata(Unset, Some(<<8>>), Some(<<4>>), Some("[x:<f4,y:<i4]")),
     PartialMetadata(Some(1), Some(<<4, 4>>), Some(<<2, 2>>), Some("<f4")),
     PartialMetadata(Unset, Some(<<4, 4>>), Some(<<2>>), Some("<f4")),
     PartialMetadata(Unset, Unset, Unset, Some("<f4"))}

SelectedFields == {"", "x", "z"}

SchemaOf(rank, dtype, shape) == [rank |-> rank, dtype |-> dtype, shape |-> shape]

Schemas ==
    {SchemaOf(Unset, Unset, Unset),
     SchemaOf(Some(2), Unset, Unset),
     SchemaOf(Some(1), Unset, Unset),
     SchemaOf(Unset, Some("float32"), Unset),
     SchemaOf(Unset, Some("int32"), Unset),
     SchemaOf(Unset, Some("float32"), Some(<<4, 4>>)),
     SchemaOf(Unset, Unset, Some(<<8, 8>>))}

Requests ==
    [partial_metadata : PartialMetadatas, selected_field : SelectedFields, schema : Schemas]

Ok == [code |-> "ok"]

\* GetFieldIndex (tensorstore/driver/zarr/spec.cc): the index of the selected
\* field; an empty selection names the only field of a single-field dtype.
GetFieldIndex(dtype, selected_field) ==
    LET fields == DtypeFields(dtype)
        named == {i \in 1..Len(fields) : fields[i].name = selected_field}
    IN IF selected_field = ""
       THEN IF Len(fields) = 1 THEN [status |-> Ok, index |-> 0]
            ELSE [status |-> [code |-> "field_not_specified"], index |-> -1]
       ELSE IF named # {} THEN [status |-> Ok, index |-> (CHOOSE i \in named : TRUE) - 1]
            ELSE [status |-> [code |-> "field_not_found"], index |-> -1]

\* ValidateMetadata (spec.cc): every member the partial metadata sets equals
\* the stored metadata's.
ValidateMetadata(metadata, partial_metadata) ==
    IF /\ Has(partial_metadata.rank) => Get(partial_metadata.rank) = metadata.rank
       /\ Has(partial_metadata.shape) => Get(partial_metadata.shape) = metadata.shape
       /\ Has(partial_metadata.chunks) => Get(partial_metadata.chunks) = metadata.chunks
       /\ Has(partial_metadata.dtype) => Get(partial_metadata.dtype) = metadata.dtype
    THEN Ok
    ELSE [code |-> "metadata_mismatch"]

\* ValidateMetadataSchema (spec.cc): the schema's rank, dtype and shape, where
\* set, are those of the selected field of the stored metadata.
ValidateMetadataSchema(metadata, field_index, schema) ==
    LET field == DtypeFields(metadata.dtype)[field_index + 1]
    IN IF /\ Has(schema.rank) => Get(schema.rank) = metadata.rank + Len(field.field_shape)
          /\ Has(schema.dtype) => Get(schema.dtype) = field.dtype
          /\ Has(schema.shape) => Get(schema.shape) = metadata.shape \o field.field_shape
       THEN Ok
       ELSE [code |-> "schema_mismatch"]

\* The zarr dtype chosen for a schema dtype when the metadata gives none.
ZarrDtypeOf(dtype) == IF dtype = "float32" THEN "<f4" ELSE "<i4"

\* GetNewMetadata (spec.cc): the metadata to create from the partial metadata,
\* the selected field and the schema, or an error if they leave the shape or
\* the dtype open or contradict each other. Chunks left open are chosen by
\* the driver (here: one chunk).
GetNewMetadata(partial_metadata, selected_field, schema) ==
    LET pm == partial_metadata
        shapes == pm.shape \cup schema.shape
        dtypes == pm.dtype \cup {ZarrDtypeOf(d) : d \in (IF Has(pm.dtype) THEN {} ELSE schema.dtype)}
        invalid == [status |-> [code |-> "invalid_argument"], metadata |-> NoMetadata]
    IN IF Cardinality(shapes) # 1 \/ Cardinality(dtypes) # 1 THEN invalid
       ELSE LET shape == Get(shapes)
                dtype == Get(dtypes)
                chunks == IF Has(pm.chunks) THEN Get(pm.chunks) ELSE shape
                field == GetFieldIndex(dtype, selected_field)
            IN IF \/ field.status # Ok
                  \/ Len(chunks) # Len(shape)
                  \/ Has(pm.rank) /\ Get(pm.rank) # Len(shape)
                  \/ Has(schema.rank) /\ Get(schema.rank) # Len(shape)
               THEN invalid
               ELSE IF Has(schema.dtype)
                       /\ Get(schema.dtype) # DtypeFields(dtype)[field.index + 1].dtype
               THEN invalid
               ELSE [status |-> Ok, metadata |-> ZarrMetadata(shape, chunks, dtype, None)]

\* Create without the existing-metadata check.
CreateOverExisting(existing_metadata, spec) ==
    GetNewMetadata(spec.partial_metadata, spec.selected_field, spec.schema)

\* OpenState::Create.
Create(existing_metadata, spec) ==
    IF IsMetadata(existing_metadata)
    THEN [status |-> [code |-> "already_exists"], metadata |-> NoMetadata]
    ELSE GetNewMetadata(spec.partial_metadata, spec.selected_field, spec.schema)

\* GetComponentIndex without the schema validation.
GetComponentIndexNoSchema(metadata, spec) ==
    IF ValidateMetadata(metadata, spec.partial_metadata) # Ok
    THEN [status |-> ValidateMetadata(metadata, spec.partial_metadata), index |-> -1]
    ELSE GetFieldIndex(metadata.dtype, spec.selected_field)

\* OpenState::GetComponentIndex: the three validations in order, each
\* returning its error at once.
GetComponentIndex(metadata, spec) ==
    LET validated == ValidateMetadata(metadata, spec.partial_metadata)
        field == GetFieldIndex(metadata.dtype, spec.selected_field)
    IN IF validated # Ok THEN [status |-> validated, index |-> -1]
       ELSE IF field.status # Ok THEN field
       ELSE LET schema == ValidateMetadataSchema(metadata, field.index, spec.schema)
            IN IF schema # Ok THEN [status |-> schema, index |-> -1]
               ELSE [status |-> Ok, index |-> field.index]

InitCreate ==
    /\ request = NoCall
    /\ stored = NoMetadata
    /\ createResult = NoCall
    /\ indexResult = NoCall
    /\ IdleResize /\ IdleSnap /\ IdleKey /\ IdleOpen /\ IdleExt

\* An open in create mode: Create is called with whatever metadata the
\* location holds, and new metadata is written if it succeeds.
DoCreate(spec) ==
    /\ request' = spec
    /\ LET result == Create(stored, spec)
       IN /\ createResult' = [existing |-> stored, result |-> result]
          /\ stored' = IF result.status = Ok THEN result.metadata ELSE stored
    /\ indexResult' = NoCall
    /\ UNCHANGED <<resizeVars, snapVars, keyVars, openVars, extVars>>

\* An open of the existing store: GetComponentIndex on the stored metadata.
DoOpenExisting(spec) ==
    /\ IsMetadata(stored)
    /\ request' = spec
    /\ indexResult' = [metadata |-> stored, result |-> GetComponentIndex(stored, spec)]
    /\ createResult' = NoCall
    /\ UNCHANGED <<stored, resizeVars, snapVars, keyVars, openVars, extVars>>

\* An open with delete_existing: everything under the store path is deleted.
DeleteExisting ==
    /\ IsMetadata(stored)
    /\ stored' = NoMetadata
    /\ request' = NoCall
    /\ createResult' = NoCall
    /\ indexResult' = NoCall
    /\ UNCHANGED <<resizeVars, snapVars, keyVars, openVars, extVars>>

NextCreate ==
    \/ \E spec \in Requests : DoCreate(spec)
    \/ \E spec \in Requests : DoOpenExisting(spec)
    \/ DeleteExisting

SpecCreate == InitCreate /\ [][NextCreate]_vars

\* C9: Create with existing metadata returns the already-exists error and no
\* metadata, and returns that error in no other case; with no existing
\* metadata it succeeds exactly when the partial metadata, selected field and
\* schema are consistent, and the metadata it then returns (and the store now
\* holds) has the requested rank, shape, chunk shape and dtype.
CreateDecidedByExisting ==
    IsCall(createResult) =>
        LET existing == createResult.existing
            result == createResult.result
            pm == request.partial_metadata
            schema == request.schema
            m == result.metadata
        IN /\ IsMetadata(existing) =>
                 (result.status.code = "already_exists" /\ ~IsMetadata(m))
           /\ result.status.code = "already_exists" => IsMetadata(existing)
           /\ ~IsMetadata(existing) =>
                 (result.status = Ok <=>
                     GetNewMetadata(pm, request.selected_field, schema).status = Ok)
           /\ result.status # Ok => (~IsMetadata(m) /\ stored = existing)
           /\ result.status = Ok =>
                 /\ IsMetadata(m)
                 /\ stored = m
                 /\ m.rank = Len(m.shape) /\ Len(m.chunks) = m.rank
                 /\ Has(pm.rank) => m.rank = Get(pm.rank)
                 /\ Has(pm.shape) => m.shape = Get(pm.shape)
                 /\ Has(pm.chunks) => m.chunks = Get(pm.chunks)
                 /\ Has(pm.dtype) => m.dtype = Get(pm.dtype)
                 /\ Has(schema.rank) => m.rank = Get(schema.rank)
                 /\ Has(schema.shape) => m.shape = Get(schema.shape)
                 /\ Has(schema.dtype) =>
                       \E i \in 1..Len(DtypeFields(m.dtype)) :
                           DtypeFields(m.dtype)[i].dtype = Get(schema.dtype)

\* C9 witness: with nothing stored, Create for rank 2, shape [4,4], chunks
\* [2,2], dtype float32 has succeeded and the store holds exactly that.
CreatedFloat32Store ==
    /\ IsCall(createResult)
    /\ ~IsMetadata(createResult.existing)
    /\ request.partial_metadata =
          PartialMetadata(Some(2), Some(<<4, 4>>), Some(<<2, 2>>), Some("<f4"))
    /\ createResult.result.status = Ok
    /\ stored.rank = 2 /\ stored.shape = <<4, 4>> /\ stored.chunks = <<2, 2>>
    /\ stored.dtype = "<f4"

\* C10: GetComponentIndex on stored metadata returns an error and no index
\* whenever a member set in the partial metadata differs from the stored one,
\* the selected field is not a field of the stored dtype, or the schema's
\* dtype, rank or shape differs from the stored field's; otherwise it returns
\* the index of the selected field.
OpenFailsOnConflict ==
    IsCall(indexResult) =>
        LET m == indexResult.metadata
            r == indexResult.result
            pm == request.partial_metadata
            schema == request.schema
            sel == request.selected_field
            fields == DtypeFields(m.dtype)
            selected == {i \in 1..Len(fields) :
                            fields[i].name = sel \/ (sel = "" /\ Len(fields) = 1)}
            metadataConflict ==
                \/ Has(pm.rank) /\ Get(pm.rank) # m.rank
                \/ Has(pm.shape) /\ Get(pm.shape) # m.shape
                \/ Has(pm.chunks) /\ Get(pm.chunks) # m.chunks
                \/ Has(pm.dtype) /\ Get(pm.dtype) # m.dtype
            schemaConflict ==
                \E i \in selected :
                    \/ Has(schema.dtype) /\ Get(schema.dtype) # fields[i].dtype
                    \/ Has(schema.rank) /\ Get(schema.rank) # m.rank
                    \/ Has(schema.shape) /\ Get(schema.shape) # m.shape
        IN IF metadataConflict \/ selected = {} \/ schemaConflict
           THEN r.status # Ok /\ r.index = -1
           ELSE r.status = Ok /\ r.index + 1 \in selected

\* C10 witness: the stored dtype is float32 and an open that asks only for
\* dtype int32 has failed on the schema.
OpenedFloat32AsInt32 ==
    /\ IsCall(indexResult)
    /\ indexResult.metadata.dtype = "<f4"
    /\ request.partial_metadata = PartialMetadata(Unset, Unset, Unset, Unset)
    /\ request.selected_field = ""
    /\ request.schema = SchemaOf(Unset, Some("int32"), Unset)
    /\ indexResult.result.status.code = "schema_mismatch"

(***************************************************************************)
(* SpecBind: a JSON spec is loaded through ZarrDriver::json_binder, the    *)
(* store is opened, and the open driver's bound spec is saved to JSON and  *)
(* loaded again.                                                           *)
(***************************************************************************)
\* DimensionSeparatorJsonBinder (metadata.cc): "." and "/" are the JSON forms
\* of the two separators; any other value is rejected.
ParseDimensionSeparator(j) ==
    CASE j = "." -> Some("kDotSeparated")
      [] j = "/" -> Some("kSlashSeparated")
      [] OTHER -> Unset

DimensionSeparatorToJson(dimension_separator) ==
    IF dimension_separator = "kDotSeparated" THEN "." ELSE "/"

\* ZarrPartialMetadata: every member of ZarrMetadata, each optional.
ZarrPartialMetadata(shape, chunks, dtype, dimension_separator) ==
    [rank |-> {Len(x) : x \in shape \cup chunks},
     zarr_format |-> Unset, shape |-> shape, chunks |-> chunks,
     compressor |-> Unset, filters |-> Unset, order |-> Unset, dtype |-> dtype,
     fill_value |-> Unset, dimension_separator |-> dimension_separator]

\* The "metadata" member of a JSON spec: the members of ZarrPartialMetadata
\* in their JSON form. The rank is not a member; the separator is "." or "/".
MetadataMember(shape, chunks, dtype, dimension_separator) ==
    [zarr_format |-> Unset, shape |-> shape, chunks |-> chunks,
     compressor |-> Unset, filters |-> Unset, order |-> Unset, dtype |-> dtype,
     fill_value |-> Unset, dimension_separator |-> dimension_separator]

\* The JSON binder of ZarrPartialMetadata (metadata.cc), loading: each member
\* present is parsed; the rank is that of shape and chunks, which must agree.
PartialMetadataFromJson(j) ==
    LET sep == UNION {ParseDimensionSeparator(x) : x \in j.dimension_separator}
        ranks == {Len(x) : x \in j.shape \cup j.chunks}
    IN IF (Has(j.dimension_separator) /\ ~Has(sep)) \/ Cardinality(ranks) > 1
       THEN [status |-> [code |-> "invalid_argument", message |-> "metadata"],
             value |-> NoCall]
       ELSE [status |-> Ok,
             value |-> [rank |-> ranks, zarr_format |-> j.zarr_format,
                        shape |-> j.shape, chunks |-> j.chunks,
                        compressor |-> j.compressor, filters |-> j.filters,
                        order |-> j.order, dtype |-> j.dtype,
                        fill_value |-> j.fill_value, dimension_separator |-> sep]]

\* The same binder, saving.
PartialMetadataToJson(pm) ==
    [zarr_format |-> pm.zarr_format, shape |-> pm.shape, chunks |-> pm.chunks,
     compressor |-> pm.compressor, filters |-> pm.filters, order |-> pm.order,
     dtype |-> pm.dtype, fill_value |-> pm.fill_value,
     dimension_separator |-> {DimensionSeparatorToJson(x) : x \in pm.dimension_separator}]

ValueMismatch ==
    [code |-> "invalid_argument", message |-> "does not match value in metadata"]

\* The key_encoding member with the comparison against the metadata's
\* separator left out: the alias overrides it.
KeyEncodingOverrides(partial_metadata, key_encoding) ==
    IF ~Has(key_encoding) THEN [status |-> Ok, partial_metadata |-> partial_metadata]
    ELSE LET value == ParseDimensionSeparator(Get(key_encoding))
         IN IF ~Has(value)
            THEN [status |-> [code |-> "invalid_argument", message |-> "key_encoding"],
                  partial_metadata |-> partial_metadata]
            ELSE [status |-> Ok,
                  partial_metadata |-> [partial_metadata EXCEPT !.dimension_separator = value]]

\* The deprecated key_encoding member of json_binder, loading. An absent
\* member is skipped (OptionalMember); a present one is parsed by
\* DimensionSeparatorJsonBinder and then handed to the lambda.
KeyEncodingMember(partial_metadata, key_encoding) ==
    IF ~Has(key_encoding) THEN [status |-> Ok, partial_metadata |-> partial_metadata]
    ELSE LET value == ParseDimensionSeparator(Get(key_encoding))
             sep == partial_metadata.dimension_separator
         IN IF ~Has(value)
            THEN [status |-> [code |-> "invalid_argument", message |-> "key_encoding"],
                  partial_metadata |-> partial_metadata]
            ELSE IF Has(sep) /\ Get(sep) # Get(value)
            THEN [status |-> ValueMismatch, partial_metadata |-> partial_metadata]
            ELSE [status |-> Ok,
                  partial_metadata |-> [partial_metadata EXCEPT !.dimension_separator = value]]

\* The jb::Initialize step of json_binder: GetSpecInfo, then the rank and the
\* dtype it found are set on the schema. GetSpecRankAndFieldInfo (spec.cc)
\* finds the field once the dtype is known, and the full rank once the rank
\* is known as well.
InitializeSpec(obj) ==
    LET pm == obj.partial_metadata
    IN IF ~Has(pm.dtype) THEN [status |-> Ok, spec |-> obj]
       ELSE LET found == GetFieldIndex(Get(pm.dtype), obj.selected_field)
            IN IF found.status # Ok THEN [status |-> found.status, spec |-> NoCall]
               ELSE LET field == DtypeFields(Get(pm.dtype))[found.index + 1]
                    IN [status |-> Ok,
                        spec |-> [obj EXCEPT
                            !.schema.rank = {r + Len(field.field_shape) : r \in pm.rank},
                            !.schema.dtype = Some(field.dtype)]]

\* ZarrDriver::json_binder, loading: the members in sequence, the first error
\* ending the load.
SpecFromJson(doc) ==
    LET loaded == PartialMetadataFromJson(doc.metadata)
    IN IF loaded.status # Ok THEN [status |-> loaded.status, spec |-> NoCall]
       ELSE LET alias == KeyEncodingMember(loaded.value, doc.key_encoding)
            IN IF alias.status # Ok THEN [status |-> alias.status, spec |-> NoCall]
               ELSE InitializeSpec(
                        [store |-> [path |-> doc.path],
                         partial_metadata |-> alias.partial_metadata,
                         selected_field |-> IF Has(doc.field) THEN Get(doc.field) ELSE "",
                         schema |-> SchemaOf(Unset, Unset, Unset)])

\* ZarrDriver::json_binder, saving: key_encoding is load-only, and the field
\* is left out when it is the default.
SpecToJson(spec) ==
    [driver |-> "zarr", path |-> spec.store.path,
     metadata |-> PartialMetadataToJson(spec.partial_metadata),
     key_encoding |-> Unset,
     field |-> IF spec.selected_field = "" THEN Unset ELSE Some(spec.selected_field)]

\* GetDimensionSeparator: the stored metadata's separator if it has one, else
\* the spec's, else the default.
GetDimensionSeparator(partial_metadata, metadata) ==
    IF metadata.dimension_separator # None THEN metadata.dimension_separator
    ELSE IF Has(partial_metadata.dimension_separator)
    THEN Get(partial_metadata.dimension_separator)
    ELSE "kDotSeparated"

\* OpenState::GetDataCacheKey: the three values handed to EncodeCacheKey.
GetDataCacheKey(metadata, spec) ==
    <<spec.store.path, GetDimensionSeparator(spec.partial_metadata, metadata), metadata>>

\* OpenState::GetDataCache: the DataCache constructed for the metadata.
GetDataCache(metadata, spec) ==
    [initial_metadata_ |-> metadata, key_prefix_ |-> spec.store.path,
     dimension_separator_ |-> GetDimensionSeparator(spec.partial_metadata, metadata)]

\* EncodeSelectedField (spec.cc): the name of the component's field.
EncodeSelectedField(component_index, dtype) == DtypeFields(dtype)[component_index + 1].name

\* A bound spec that copies every member of the metadata and leaves the
\* separator as the metadata has it.
GetBoundSpecDataMetadataOnly(cache, metadata, component_index) ==
    [store |-> [path |-> cache.key_prefix_],
     partial_metadata |->
        [rank |-> Some(metadata.rank), zarr_format |-> Some(metadata.zarr_format),
         shape |-> Some(metadata.shape), chunks |-> Some(metadata.chunks),
         compressor |-> Some(metadata.compressor), filters |-> Some(metadata.filters),
         order |-> Some(metadata.order), dtype |-> Some(metadata.dtype),
         fill_value |-> Some(metadata.fill_value),
         dimension_separator |->
            IF metadata.dimension_separator = None THEN Unset
            ELSE Some(metadata.dimension_separator)],
     selected_field |-> EncodeSelectedField(component_index, metadata.dtype),
     schema |-> SchemaOf(Unset, Unset, Unset)]

\* DataCache::GetBoundSpecData: the members of the metadata, the separator of
\* the cache, and the field of the component; the store path is the cache's
\* GetBaseKvstorePath().
GetBoundSpecData(cache, metadata, component_index) ==
    [store |-> [path |-> cache.key_prefix_],
     partial_metadata |->
        [rank |-> Some(metadata.rank), zarr_format |-> Some(metadata.zarr_format),
         shape |-> Some(metadata.shape), chunks |-> Some(metadata.chunks),
         compressor |-> Some(metadata.compressor), filters |-> Some(metadata.filters),
         order |-> Some(metadata.order), dtype |-> Some(metadata.dtype),
         fill_value |-> Some(metadata.fill_value),
         dimension_separator |-> Some(cache.dimension_separator_)],
     selected_field |-> EncodeSelectedField(component_index, metadata.dtype),
     schema |-> SchemaOf(Unset, Unset, Unset)]

\* The "metadata" members callers give, before the separator: none; the
\* rank-2 float32 store; a structured dtype alone; a shape alone.
MetadataMembers ==
    {MetadataMember(s[1], s[2], s[3], sep) :
        s \in {<<Unset, Unset, Unset>>,
               <<Some(<<4, 4>>), Some(<<2, 2>>), Some("<f4")>>,
               <<Unset, Unset, Some("[x:<f4,y:<i4]")>>,
               <<Some(<<8>>), Unset, Unset>>},
        sep \in {Unset, Some("."), Some("/")}}

\* The JSON specs callers open with.
Documents ==
    [driver : {"zarr"}, path : {<<"a", "/">>, <<"b", "/">>},
     metadata : MetadataMembers,
     key_encoding : {Unset, Some("."), Some("/"), Some("_")},
     field : {Unset, Some("x")}]

\* The metadata a location may hold.
StoredMetadatas ==
    {ZarrMetadata(s[1], s[2], s[3], sep) :
        s \in {<<<<4, 4>>, <<2, 2>>, "<f4">>, <<<<8>>, <<4>>, "[x:<f4,y:<i4]">>},
        sep \in {None} \cup DimensionSeparators}

InitBind ==
    /\ cfgDoc \in Documents
    /\ cfgStored \in StoredMetadatas
    /\ cfgSpec = NoCall
    /\ cfgCache = NoCall
    /\ cfgReopen = NoCall
    /\ IdleCore /\ IdleCodec /\ IdleFill /\ IdleGrid /\ IdleRegistry /\ IdleBounds
    /\ IdlePromise

\* The JSON spec is loaded.
LoadSpec ==
    /\ cfgSpec = NoCall
    /\ cfgSpec' = SpecFromJson(cfgDoc)
    /\ UNCHANGED <<cfgDoc, cfgStored, cfgCache, cfgReopen>>
    /\ UNCHANGED <<coreVars, codecVars, fillVars, gridVars, regVars, boundsVars,
                   promiseVars>>

\* The store is opened with the loaded spec: the stored metadata is
\* validated, and the data cache is looked up by its key and constructed.
OpenDriver ==
    /\ IsCall(cfgSpec) /\ cfgSpec.status = Ok
    /\ cfgCache = NoCall
    /\ LET found == GetComponentIndex(cfgStored, cfgSpec.spec)
       IN /\ found.status = Ok
          /\ cfgCache' = [key |-> GetDataCacheKey(cfgStored, cfgSpec.spec),
                          cache |-> GetDataCache(cfgStored, cfgSpec.spec),
                          component_index |-> found.index]
    /\ UNCHANGED <<cfgDoc, cfgSpec, cfgStored, cfgReopen>>
    /\ UNCHANGED <<coreVars, codecVars, fillVars, gridVars, regVars, boundsVars,
                   promiseVars>>

\* The bound spec of the open driver is saved to JSON, loaded again and used
\* to open the same location.
Rebind ==
    /\ IsCall(cfgCache)
    /\ cfgReopen = NoCall
    /\ LET bound == GetBoundSpecData(cfgCache.cache, cfgStored, cfgCache.component_index)
           doc == SpecToJson(bound)
           loaded == SpecFromJson(doc)
       IN cfgReopen' =
            [doc |-> doc, loaded |-> loaded,
             found |-> IF loaded.status = Ok
                       THEN GetComponentIndex(cfgStored, loaded.spec)
                       ELSE [status |-> loaded.status, index |-> -1],
             key |-> IF loaded.status = Ok
                     THEN GetDataCacheKey(cfgStored, loaded.spec)
                     ELSE <<>>]
    /\ UNCHANGED <<cfgDoc, cfgSpec, cfgStored, cfgCache>>
    /\ UNCHANGED <<coreVars, codecVars, fillVars, gridVars, regVars, boundsVars,
                   promiseVars>>

NextBind == LoadSpec \/ OpenDriver \/ Rebind

SpecBind == InitBind /\ [][NextBind]_vars

\* C11: the bound spec of an open driver, saved and loaded again, loads,
\* opens the same store and component, and gives the same data cache key as
\* the spec the driver was opened with: the same store path, the same
\* effective dimension separator and the same metadata.
BoundSpecSameCacheKey ==
    IsCall(cfgReopen) =>
        /\ cfgReopen.loaded.status = Ok
        /\ cfgReopen.found = [status |-> Ok, index |-> cfgCache.component_index]
        /\ cfgReopen.key = cfgCache.key
        /\ cfgReopen.key[1] = cfgSpec.spec.store.path
        /\ cfgReopen.key[2] = cfgCache.cache.dimension_separator_
        /\ cfgReopen.key[3] = cfgStored

\* A store whose metadata names no separator, opened with key_encoding "/"
\* alone and reopened from the bound spec.
ReboundSlashFromAlias ==
    /\ IsCall(cfgReopen)
    /\ cfgStored.dimension_separator = None
    /\ cfgDoc.key_encoding = Some("/")
    /\ ~Has(cfgDoc.metadata.dimension_separator)
    /\ cfgReopen.key[2] = "kSlashSeparated"

\* C12: loading a spec fails with the value-mismatch error exactly when
\* key_encoding and the metadata's dimension_separator are both given and
\* differ. key_encoding alone is accepted and becomes the spec's separator;
\* the metadata's separator alone is accepted and kept; the two with the
\* same value are accepted with that value.
KeyEncodingAgreesOrFails ==
    IsCall(cfgSpec) =>
        LET alias == UNION {ParseDimensionSeparator(x) : x \in cfgDoc.key_encoding}
            modern == UNION {ParseDimensionSeparator(x) :
                                x \in cfgDoc.metadata.dimension_separator}
            sep == cfgSpec.spec.partial_metadata.dimension_separator
        IN /\ cfgSpec.status = ValueMismatch <=>
                Has(alias) /\ Has(modern) /\ alias # modern
           /\ cfgSpec.status = Ok /\ Has(alias) /\ ~Has(modern) => sep = alias
           /\ cfgSpec.status = Ok /\ ~Has(cfgDoc.key_encoding) /\ Has(modern) => sep = modern
           /\ cfgSpec.status = Ok /\ Has(alias) /\ Has(modern) => sep = alias /\ sep = modern
           /\ (Has(alias) \/ ~Has(cfgDoc.key_encoding)) /\ ~(Has(alias) /\ Has(modern) /\ alias # modern)
                => cfgSpec.status = InitializeSpec(
                        [store |-> [path |-> cfgDoc.path],
                         partial_metadata |->
                            [PartialMetadataFromJson(cfgDoc.metadata).value
                                EXCEPT !.dimension_separator = alias \cup modern],
                         selected_field |-> IF Has(cfgDoc.field) THEN Get(cfgDoc.field) ELSE "",
                         schema |-> SchemaOf(Unset, Unset, Unset)]).status

\* Each of the four cases has been loaded: here, the two given and different.
LoadedConflictingAlias ==
    /\ IsCall(cfgSpec)
    /\ cfgDoc.key_encoding = Some("/")
    /\ cfgDoc.metadata.dimension_separator = Some(".")
    /\ cfgSpec.status = ValueMismatch

(***************************************************************************)
(* SpecCodec: the metadata blob of one location and the MetadataCache      *)
(* entry read from it (MetadataCache::EncodeMetadata / DecodeMetadata).    *)
(***************************************************************************)
MaxGeneration == 2

\* Every dtype of the model, the one with a field of non-empty field_shape
\* included.
AllDtypes == Dtypes \cup {"[v:<i2(3)]"}

\* Size in bytes of an element of a field's dtype.
ElementSize(dtype) == IF dtype = "int16" THEN 2 ELSE 4

\* Byte strides of a C-order array of the given shape and element size.
CStrides(shape, element_size) ==
    LET RECURSIVE Below(_)
        Below(i) == IF i >= Len(shape) THEN element_size ELSE shape[i + 1] * Below(i + 1)
    IN [i \in 1..Len(shape) |-> Below(i)]

\* The fill value of a field when the metadata declares one: an array of the
\* field's field_shape.
DeclaredFillValue(field) ==
    [valid |-> TRUE, shape |-> field.field_shape,
     byte_strides |-> CStrides(field.field_shape, ElementSize(field.dtype))]

\* The metadata with a fill value declared for every field.
WithFillValue(metadata) ==
    [metadata EXCEPT !.fill_value =
        [i \in 1..Len(DtypeFields(metadata.dtype)) |->
            DeclaredFillValue(DtypeFields(metadata.dtype)[i])]]

\* The valid metadata of the model: every rank, dtype and separator, without
\* and with a fill value.
ValidMetadatas ==
    LET plain == UNION {{ZarrMetadata([i \in 1..r |-> 4], [i \in 1..r |-> 2], d, sep) :
                            d \in AllDtypes, sep \in {None} \cup DimensionSeparators} :
                        r \in 1..MaxRank}
    IN plain \cup {WithFillValue(m) : m \in plain}

\* nlohmann::json::dump and parse: a text is either a JSON document with a
\* value or no JSON at all.
JsonText(value) == [json |-> Some(value)]

NotJson == [json |-> Unset]

\* to_json of ZarrMetadata (metadata.cc): the members of the .zarray object.
\* The rank is not a member; filters is null; the fill value of a field is
\* null when not declared; dimension_separator is present only when set.
MetadataToJson(metadata) ==
    LET members ==
            [zarr_format |-> metadata.zarr_format, shape |-> metadata.shape,
             chunks |-> metadata.chunks, dtype |-> metadata.dtype,
             compressor |-> metadata.compressor,
             fill_value |-> [i \in DOMAIN metadata.fill_value |->
                                IF metadata.fill_value[i].valid THEN "0" ELSE "null"],
             order |-> metadata.order,
             filters |-> IF metadata.filters = None THEN "null" ELSE metadata.filters]
    IN IF metadata.dimension_separator = None THEN members
       ELSE [dimension_separator |-> DimensionSeparatorToJson(metadata.dimension_separator)]
            @@ members

RequiredMembers ==
    {"zarr_format", "shape", "chunks", "dtype", "compressor", "fill_value", "order", "filters"}

\* ZarrMetadata::FromJson (metadata.cc): an object with every required
\* member, each valid, gives the metadata; anything else is an error.
MetadataFromJson(j) ==
    IF /\ RequiredMembers \subseteq DOMAIN j
       /\ DOMAIN j \subseteq RequiredMembers \cup {"dimension_separator"}
       /\ j.zarr_format = 2
       /\ Len(j.chunks) = Len(j.shape)
       /\ j.dtype \in AllDtypes
       /\ j.order \in {"C", "F"}
       /\ j.filters = "null"
       /\ Len(j.fill_value) = Len(DtypeFields(j.dtype))
       /\ "dimension_separator" \in DOMAIN j => Has(ParseDimensionSeparator(j.dimension_separator))
    THEN [status |-> Ok,
          metadata |->
            [rank |-> Len(j.shape), zarr_format |-> j.zarr_format, shape |-> j.shape,
             chunks |-> j.chunks, dtype |-> j.dtype, compressor |-> j.compressor,
             filters |-> None, order |-> j.order,
             fill_value |-> [i \in DOMAIN j.fill_value |->
                                IF j.fill_value[i] = "null" THEN NoArray
                                ELSE DeclaredFillValue(DtypeFields(j.dtype)[i])],
             dimension_separator |->
                IF "dimension_separator" \in DOMAIN j
                THEN Get(ParseDimensionSeparator(j.dimension_separator))
                ELSE None]]
    ELSE [status |-> [code |-> "invalid_argument", message |-> "Error parsing metadata"],
          metadata |-> NoMetadata]

InvalidJson == [code |-> "failed_precondition", message |-> "Invalid JSON"]

\* ParseEncodedMetadata with the status of FromJson dropped: the metadata
\* object made before the call is returned as it is.
ParseEncodedMetadataIgnoringError(encoded_value) ==
    IF ~Has(encoded_value.json)
    THEN [status |-> InvalidJson, metadata |-> NoMetadata]
    ELSE LET parsed == MetadataFromJson(Get(encoded_value.json))
         IN IF parsed.status = Ok THEN parsed
            ELSE [status |-> Ok, metadata |-> ZarrMetadata(<<>>, <<>>, "<f4", None)]

\* ParseEncodedMetadata: text that is no JSON is refused; otherwise the result
\* is that of ZarrMetadata::FromJson.
ParseEncodedMetadata(encoded_value) ==
    IF ~Has(encoded_value.json)
    THEN [status |-> InvalidJson, metadata |-> NoMetadata]
    ELSE MetadataFromJson(Get(encoded_value.json))

\* MetadataCache::DecodeMetadata.
DecodeMetadata(encoded_metadata) == ParseEncodedMetadata(encoded_metadata)

\* An encoder that writes the metadata without its dimension_separator.
EncodeMetadataNoSeparator(metadata) ==
    JsonText(MetadataToJson([metadata EXCEPT !.dimension_separator = None]))

\* MetadataCache::EncodeMetadata.
EncodeMetadata(metadata) == JsonText(MetadataToJson(metadata))

\* What another writer may leave under the metadata key: text that is no
\* JSON; JSON that is no object of the format (a number; an object without
\* shape; one whose chunks and shape disagree on the rank; another
\* zarr_format; an unknown separator); and a valid descriptor.
ForeignBlobs ==
    LET good == MetadataToJson(ZarrMetadata(<<8>>, <<4>>, "<i4", None))
    IN {NotJson,
        JsonText([number |-> 3]),
        JsonText([zarr_format |-> 2, chunks |-> <<4>>, dtype |-> "<i4"]),
        JsonText([good EXCEPT !.chunks = <<4, 4>>]),
        JsonText([good EXCEPT !.zarr_format = 3]),
        JsonText([dimension_separator |-> "_"] @@ good),
        JsonText(good)}

InitCodec ==
    /\ mdBlob = NoCall
    /\ mdEntry = NoMetadata
    /\ mdCall = NoCall
    /\ IdleCore /\ IdleBind /\ IdleFill /\ IdleGrid /\ IdleRegistry /\ IdleBounds
    /\ IdlePromise

StoredGeneration == IF IsCall(mdBlob) THEN mdBlob.generation ELSE 0

\* Another writer replaces the blob.
ForeignWrite(bytes) ==
    /\ StoredGeneration < MaxGeneration
    /\ mdBlob' = [bytes |-> bytes, generation |-> StoredGeneration + 1,
                  written |-> NoMetadata]
    /\ UNCHANGED <<mdEntry, mdCall>>
    /\ UNCHANGED <<coreVars, bindVars, fillVars, gridVars, regVars, boundsVars,
                   promiseVars>>

\* This process creates or updates the metadata: the new metadata is encoded
\* and written, and becomes the entry's.
WriteMetadata(metadata) ==
    /\ StoredGeneration < MaxGeneration
    /\ LET encoded == EncodeMetadata(metadata)
       IN /\ mdBlob' = [bytes |-> encoded, generation |-> StoredGeneration + 1,
                        written |-> metadata]
          /\ mdEntry' = [metadata |-> metadata, generation |-> StoredGeneration + 1]
          /\ mdCall' = [op |-> "encode", metadata |-> metadata, encoded |-> encoded,
                        before |-> mdEntry, after |-> mdEntry']
    /\ UNCHANGED <<coreVars, bindVars, fillVars, gridVars, regVars, boundsVars,
                   promiseVars>>

\* The entry is read from the store: the blob is decoded, and on success the
\* result becomes the entry's metadata; on failure the entry stays as it is.
ReadMetadata ==
    /\ IsCall(mdBlob)
    /\ LET result == DecodeMetadata(mdBlob.bytes)
       IN /\ mdEntry' = IF result.status = Ok
                        THEN [metadata |-> result.metadata, generation |-> mdBlob.generation]
                        ELSE mdEntry
          /\ mdCall' = [op |-> "decode", encoded |-> mdBlob.bytes, written |-> mdBlob.written,
                        result |-> result, before |-> mdEntry, after |-> mdEntry']
    /\ UNCHANGED mdBlob
    /\ UNCHANGED <<coreVars, bindVars, fillVars, gridVars, regVars, boundsVars,
                   promiseVars>>

NextCodec ==
    \/ \E bytes \in ForeignBlobs : ForeignWrite(bytes)
    \/ \E metadata \in ValidMetadatas : WriteMetadata(metadata)
    \/ ReadMetadata

SpecCodec == InitCodec /\ [][NextCodec]_vars

ValidBlobs == {JsonText(MetadataToJson(m)) : m \in ValidMetadatas \cup {ZarrMetadata(<<8>>, <<4>>, "<i4", None)}}

\* C14: decoding bytes that are no JSON fails with the Invalid JSON error,
\* decoding JSON that is no valid descriptor fails, and a failed decode gives
\* no metadata and leaves the entry as it was; the entry's metadata changes
\* only by a successful decode, to its result, or by a create or update of
\* this process.
DecodeFailsClosed ==
    /\ [](IsCall(mdCall) /\ mdCall.op = "decode" =>
            /\ ~Has(mdCall.encoded.json) => mdCall.result.status = InvalidJson
            /\ mdCall.encoded \notin ValidBlobs => mdCall.result.status # Ok
            /\ mdCall.result.status # Ok =>
                    mdCall.result.metadata = NoMetadata /\ mdCall.after = mdCall.before)
    /\ [][mdEntry' # mdEntry =>
            \/ /\ mdCall'.op = "decode"
               /\ mdCall'.result.status = Ok
               /\ mdEntry'.metadata = mdCall'.result.metadata
            \/ /\ mdCall'.op = "encode"
               /\ mdEntry'.metadata = mdCall'.metadata]_vars

\* A populated entry has survived the read of a blob that is no JSON.
EntryKeptAfterInvalidJson ==
    /\ IsCall(mdCall) /\ mdCall.op = "decode"
    /\ mdCall.encoded = NotJson
    /\ IsMetadata(mdCall.before)
    /\ mdEntry = mdCall.before

(***************************************************************************)
(* SpecFill: ZarrDriver::GetFillValue of an open driver and                *)
(* ZarrDriver::SpecGetFillValue of a spec, for the transforms callers pass.*)
(***************************************************************************)
\* kInfIndex + 1, the size of an unbounded dimension; the code only copies it.
kInfSize == 1000000000

\* dynamic_rank: the rank of a transform that is not valid().
dynamic_rank == -1

\* An IndexTransformView<>: whether it is valid, and its ranks.
NullTransform == [valid |-> FALSE, input_rank |-> dynamic_rank, output_rank |-> dynamic_rank]

\* The transforms callers pass: none, and every pair of ranks up to one more
\* than the largest rank of a component.
Transforms ==
    {NullTransform} \cup
    [valid : {TRUE}, input_rank : 0..(MaxRank + 1), output_rank : 0..(MaxRank + 1)]

IncompatibleRank == [code |-> "invalid_argument", message |-> "incompatible rank"]

\* TransformOutputBroadcastableArray (index_space/transform_broadcastable_array):
\* the array, broadcast against the output space of the transform, as seen
\* from its input space; a transform with fewer output dimensions than the
\* array has is an error.
TransformOutputBroadcastableArray(transform, output_array, output_domain) ==
    IF transform.output_rank < Len(output_array.shape)
    THEN [status |-> IncompatibleRank, array |-> NoArray]
    ELSE [status |-> Ok,
          array |-> [valid |-> TRUE, shape |-> output_array.shape,
                     byte_strides |-> output_array.byte_strides]]

\* GetFillValue without the early return for a fill value that is not valid.
GetFillValueNoValidCheck(metadata, component_index, transform) ==
    LET fill_value == metadata.fill_value[component_index + 1]
        field == DtypeFields(metadata.dtype)[component_index + 1]
        output_domain == [i \in 1..metadata.rank |-> kInfSize] \o field.field_shape
    IN TransformOutputBroadcastableArray(transform, fill_value, output_domain)

\* ZarrDriver::GetFillValue: the fill value of the driver's component in the
\* cache's initial metadata.
GetFillValue(metadata, component_index, transform) ==
    LET fill_value == metadata.fill_value[component_index + 1]
        field == DtypeFields(metadata.dtype)[component_index + 1]
        output_domain == [i \in 1..metadata.rank |-> kInfSize] \o field.field_shape
    IN IF ~fill_value.valid THEN [status |-> Ok, array |-> NoArray]
       ELSE TransformOutputBroadcastableArray(transform, fill_value, output_domain)

\* The fill value SpecGetFillValue works with: the schema's, or the selected
\* field's in the partial metadata when that gives a dtype and fill values.
SpecFillValue(spec) ==
    LET metadata == spec.partial_metadata
    IN IF Has(metadata.dtype) /\ Has(metadata.fill_value)
       THEN LET found == GetFieldIndex(Get(metadata.dtype), spec.selected_field)
            IN IF found.status # Ok THEN [status |-> found.status, array |-> NoArray]
               ELSE [status |-> Ok, array |-> Get(metadata.fill_value)[found.index + 1]]
       ELSE [status |-> Ok, array |-> spec.schema.fill_value]

NotCompatibleWithMetadata ==
    [code |-> "invalid_argument", message |-> "is not compatible with metadata"]

\* SpecGetFillValue with the validity test of the transform negated.
SpecGetFillValueValidReturned(spec, transform) ==
    LET chosen == SpecFillValue(spec)
        fill_value == chosen.array
        output_rank == transform.output_rank
        rank == Len(fill_value.shape)
    IN IF chosen.status # Ok THEN chosen
       ELSE IF ~fill_value.valid \/ transform.valid THEN [status |-> Ok, array |-> fill_value]
       ELSE IF output_rank < rank
       THEN [status |-> NotCompatibleWithMetadata, array |-> NoArray]
       ELSE LET pseudo_shape ==
                    [i \in 1..output_rank |->
                        IF i <= output_rank - rank THEN kInfSize
                        ELSE IF fill_value.shape[i - (output_rank - rank)] = 1 THEN kInfSize
                        ELSE fill_value.shape[i - (output_rank - rank)]]
            IN TransformOutputBroadcastableArray(transform, fill_value, pseudo_shape)

\* ZarrDriver::SpecGetFillValue.
SpecGetFillValue(spec, transform) ==
    LET chosen == SpecFillValue(spec)
        fill_value == chosen.array
        output_rank == transform.output_rank
        rank == Len(fill_value.shape)
    IN IF chosen.status # Ok THEN chosen
       ELSE IF ~fill_value.valid \/ ~transform.valid THEN [status |-> Ok, array |-> fill_value]
       ELSE IF output_rank < rank
       THEN [status |-> NotCompatibleWithMetadata, array |-> NoArray]
       ELSE LET pseudo_shape ==
                    [i \in 1..output_rank |->
                        IF i <= output_rank - rank THEN kInfSize
                        ELSE IF fill_value.shape[i - (output_rank - rank)] = 1 THEN kInfSize
                        ELSE fill_value.shape[i - (output_rank - rank)]]
            IN TransformOutputBroadcastableArray(transform, fill_value, pseudo_shape)

\* The open drivers: a valid metadata and one of its components.
FillDrivers ==
    UNION {{[metadata |-> m, component_index |-> c - 1] :
                c \in 1..Len(DtypeFields(m.dtype))} : m \in ValidMetadatas}

\* The fill values a schema may carry: none, a scalar, and arrays of rank 1
\* and 2.
SchemaFillValues ==
    {NoArray} \cup
    {[valid |-> TRUE, shape |-> s, byte_strides |-> CStrides(s, 4)] :
        s \in {<<>>, <<3>>, <<2, 3>>}}

\* The specs: every schema fill value with a partial metadata that gives no
\* fill value; and the partial metadata of a valid metadata with a declared
\* fill value, with each selection of a field.
FillSpecs ==
    {[schema |-> [fill_value |-> f],
      partial_metadata |-> [dtype |-> Unset, fill_value |-> Unset],
      selected_field |-> ""] : f \in SchemaFillValues}
    \cup
    {[schema |-> [fill_value |-> NoArray],
      partial_metadata |->
        [dtype |-> Some(d),
         fill_value |-> Some(WithFillValue(ZarrMetadata(<<4>>, <<2>>, d, None)).fill_value)],
      selected_field |-> f] : d \in AllDtypes, f \in {"", "x", "v"}}

InitFill ==
    /\ fvDriver \in FillDrivers
    /\ fvSpec \in FillSpecs
    /\ fvCall = NoCall
    /\ IdleCore /\ IdleBind /\ IdleCodec /\ IdleGrid /\ IdleRegistry /\ IdleBounds
    /\ IdlePromise

\* A call of GetFillValue on the open driver.
DriverGetFillValue(transform) ==
    /\ fvCall' = [op |-> "GetFillValue", transform |-> transform,
                  fill_value |-> fvDriver.metadata.fill_value[fvDriver.component_index + 1],
                  result |-> GetFillValue(fvDriver.metadata, fvDriver.component_index,
                                          transform)]
    /\ UNCHANGED <<fvDriver, fvSpec>>
    /\ UNCHANGED <<coreVars, bindVars, codecVars, gridVars, regVars, boundsVars,
                   promiseVars>>

\* A call of SpecGetFillValue on the spec.
DoSpecGetFillValue(transform) ==
    /\ fvCall' = [op |-> "SpecGetFillValue", transform |-> transform,
                  fill_value |-> SpecFillValue(fvSpec).array,
                  result |-> SpecGetFillValue(fvSpec, transform)]
    /\ UNCHANGED <<fvDriver, fvSpec>>
    /\ UNCHANGED <<coreVars, bindVars, codecVars, gridVars, regVars, boundsVars,
                   promiseVars>>

NextFill ==
    \/ \E transform \in Transforms : DriverGetFillValue(transform)
    \/ \E transform \in Transforms : DoSpecGetFillValue(transform)

SpecFill == InitFill /\ [][NextFill]_vars

\* C15: a call of GetFillValue or SpecGetFillValue with a transform whose
\* output rank is smaller than the rank of the component's fill value fails
\* with an invalid-argument error on the rank and returns no array.
SmallOutputRankRefused ==
    IsCall(fvCall) /\ fvCall.transform.valid /\ fvCall.fill_value.valid
        /\ fvCall.transform.output_rank < Len(fvCall.fill_value.shape) =>
            /\ fvCall.result.status \in {IncompatibleRank, NotCompatibleWithMetadata}
            /\ fvCall.result.array = NoArray

\* SpecGetFillValue has refused a transform of output rank 1 for a fill value
\* of rank 2.
SpecRefusedRankOne ==
    /\ IsCall(fvCall) /\ fvCall.op = "SpecGetFillValue"
    /\ fvCall.transform.valid /\ fvCall.transform.output_rank = 1
    /\ fvCall.fill_value.valid /\ Len(fvCall.fill_value.shape) = 2
    /\ fvCall.result.status = NotCompatibleWithMetadata

\* C16: GetFillValue on a component without a declared fill value returns
\* success and an array that holds nothing, whatever the transform.
NoFillValueGivesUnsetArray ==
    IsCall(fvCall) /\ fvCall.op = "GetFillValue"
        /\ ~fvDriver.metadata.fill_value[fvDriver.component_index + 1].valid =>
            fvCall.result = [status |-> Ok, array |-> NoArray]

\* GetFillValue was called with a transform of output rank 0 on a component
\* of a rank-2 store without a fill value.
UnsetForRankZeroTransform ==
    /\ IsCall(fvCall) /\ fvCall.op = "GetFillValue"
    /\ fvDriver.metadata.rank = 2
    /\ ~fvDriver.metadata.fill_value[fvDriver.component_index + 1].valid
    /\ fvCall.transform.valid /\ fvCall.transform.output_rank = 0
    /\ fvCall.result.status = Ok

(***************************************************************************)
(* SpecGrid: DataCache::GetChunkGridSpecification, as the DataCache        *)
(* constructor calls it on the metadata the cache is built from.           *)
(***************************************************************************)
\* The metadata a DataCache may be built from: every shape and chunk shape
\* up to MaxRank, every dtype, without and with declared fill values.
GridMetadatas ==
    LET plain == UNION {{ZarrMetadata(shape, chunks, d, None) :
                            shape \in Tuples(r, Extents), chunks \in Tuples(r, ChunkSizes),
                            d \in AllDtypes} : r \in 0..MaxRank}
    IN plain \cup {WithFillValue(m) : m \in plain}

\* metadata.chunk_layout.fields[field_i].full_chunk_shape() (metadata.cc):
\* the chunk shape followed by the field's own shape.
FullChunkShape(metadata, field_i) ==
    metadata.chunks \o DtypeFields(metadata.dtype)[field_i].field_shape

\* The fill value the grid is built with: the metadata's, or a
\* value-initialized array of rank 0 when that is not valid.
StoredFillValue(metadata, field_i) ==
    IF metadata.fill_value[field_i].valid THEN metadata.fill_value[field_i]
    ELSE [valid |-> TRUE, shape |-> <<>>, byte_strides |-> <<>>]

\* Box<>(rank): unbounded in every dimension.
UnboundedBox(rank) ==
    [origin |-> [d \in 1..rank |-> -(kInfSize - 1)],
     shape |-> [d \in 1..rank |-> 2 * kInfSize - 1]]

\* A chunk fill value with zero stride on the chunked dimensions only, the
\* remaining dimensions laid out as a C-order array of the field's shape.
ChunkFillValueChunkedOnly(metadata, field_i) ==
    LET field == DtypeFields(metadata.dtype)[field_i]
        full_chunk_shape == FullChunkShape(metadata, field_i)
        strides == CStrides(field.field_shape, ElementSize(field.dtype))
    IN [valid |-> TRUE, dtype |-> field.dtype, shape |-> full_chunk_shape,
        byte_strides |-> [cell_dim \in 1..Len(full_chunk_shape) |->
            IF cell_dim <= Len(metadata.chunks) THEN 0
            ELSE strides[cell_dim - Len(metadata.chunks)]]]

\* The body of the loop over the fields, up to components.emplace_back: the
\* chunk fill value of one field. The element pointer is that of the fill
\* value, whose dtype is the field's.
ChunkFillValue(metadata, field_i) ==
    LET field == DtypeFields(metadata.dtype)[field_i]
        full_chunk_shape == FullChunkShape(metadata, field_i)
        fill_value == StoredFillValue(metadata, field_i)
        cell_rank == Len(full_chunk_shape)
        fill_value_start_dim == cell_rank - Len(fill_value.shape)
    IN [valid |-> TRUE, dtype |-> field.dtype,
        shape |-> [cell_dim \in 1..cell_rank |-> full_chunk_shape[cell_dim]],
        byte_strides |-> [cell_dim \in 1..cell_rank |->
            IF cell_dim <= fill_value_start_dim THEN 0
            ELSE fill_value.byte_strides[cell_dim - fill_value_start_dim]]]

\* The two asserts of the loop body.
GridAssertionsHold(metadata) ==
    \A field_i \in 1..Len(DtypeFields(metadata.dtype)) :
        LET field == DtypeFields(metadata.dtype)[field_i]
            fill_value == StoredFillValue(metadata, field_i)
            full_chunk_shape == FullChunkShape(metadata, field_i)
            fill_value_start_dim == Len(full_chunk_shape) - Len(fill_value.shape)
        IN /\ Len(fill_value.shape) <= Len(field.field_shape)
           /\ \A d \in 1..Len(fill_value.shape) :
                fill_value.shape[d] = full_chunk_shape[fill_value_start_dim + d]

\* A grid whose chunked_to_cell_dimensions are counted from 1.
GetChunkGridSpecificationIotaFromOne(metadata) ==
    [components |->
        [field_i \in 1..Len(DtypeFields(metadata.dtype)) |->
            [fill_value |-> ChunkFillValue(metadata, field_i),
             component_bounds |-> UnboundedBox(Len(FullChunkShape(metadata, field_i))),
             chunked_to_cell_dimensions |-> [d \in 1..Len(metadata.chunks) |-> d]]]]

\* DataCache::GetChunkGridSpecification: one component per field.
GetChunkGridSpecification(metadata) ==
    [components |->
        [field_i \in 1..Len(DtypeFields(metadata.dtype)) |->
            [fill_value |-> ChunkFillValue(metadata, field_i),
             component_bounds |-> UnboundedBox(Len(FullChunkShape(metadata, field_i))),
             chunked_to_cell_dimensions |-> [d \in 1..Len(metadata.chunks) |-> d - 1]]]]

InitGrid ==
    /\ gridMetadata \in GridMetadatas
    /\ gridCall = NoCall
    /\ IdleCore /\ IdleBind /\ IdleCodec /\ IdleFill /\ IdleRegistry /\ IdleBounds
    /\ IdlePromise

\* The DataCache is constructed: the grid is built from the metadata. The
\* asserts hold for every metadata the format's parser produces.
BuildGrid ==
    /\ gridCall = NoCall
    /\ GridAssertionsHold(gridMetadata)
    /\ gridCall' = [metadata |-> gridMetadata,
                    result |-> GetChunkGridSpecification(gridMetadata)]
    /\ UNCHANGED gridMetadata
    /\ UNCHANGED <<coreVars, bindVars, codecVars, fillVars, regVars, boundsVars,
                   promiseVars>>

NextGrid == BuildGrid

SpecGrid == InitGrid /\ [][NextGrid]_vars

\* The cell dimensions of a component on which its chunk fill value has byte
\* stride zero.
ZeroStrideDims(component) ==
    {d \in 1..Len(component.fill_value.shape) : component.fill_value.byte_strides[d] = 0}

\* C17: the grid has one component per field, in the order of the fields; a
\* component's chunk fill value has the dtype of its field, rank (number of
\* chunks dimensions) + (number of dimensions of the field's shape), the
\* field's full chunk shape, byte stride zero on the dimensions the stored
\* fill value (of rank 0 when none is declared) does not cover and the stored
\* fill value's strides on the others; its bounds are unbounded and its
\* chunked dimension i is cell dimension i.
GridOneComponentPerField ==
    IsCall(gridCall) =>
        LET m == gridCall.metadata
            fields == DtypeFields(m.dtype)
            components == gridCall.result.components
        IN /\ Len(components) = Len(fields)
           /\ \A i \in 1..Len(fields) :
                LET c == components[i]
                    cell_rank == Len(m.chunks) + Len(fields[i].field_shape)
                    stored_rank == IF m.fill_value[i].valid
                                   THEN Len(m.fill_value[i].shape) ELSE 0
                IN /\ c.fill_value.dtype = fields[i].dtype
                   /\ Len(c.fill_value.shape) = cell_rank
                   /\ Len(c.fill_value.byte_strides) = cell_rank
                   /\ c.fill_value.shape = m.chunks \o fields[i].field_shape
                   /\ \A d \in 1..(cell_rank - stored_rank) : c.fill_value.byte_strides[d] = 0
                   /\ \A d \in 1..stored_rank :
                        c.fill_value.byte_strides[cell_rank - stored_rank + d]
                            = m.fill_value[i].byte_strides[d]
                   /\ \A d \in 1..cell_rank :
                        /\ c.component_bounds.origin[d] <= -(kInfSize - 1)
                        /\ c.component_bounds.origin[d] + c.component_bounds.shape[d] >= kInfSize
                   /\ c.chunked_to_cell_dimensions = [d \in 1..Len(m.chunks) |-> d - 1]

\* A grid of two components was built from a rank-2 structured metadata with
\* declared fill values.
BuiltTwoComponentGrid ==
    /\ IsCall(gridCall)
    /\ gridCall.metadata.rank = 2
    /\ Len(gridCall.result.components) = 2
    /\ gridCall.metadata.fill_value[2].valid

\* C18 as stated: for every component the stored fill value's rank is at
\* most the cell rank, and the leading cell dimensions it does not cover are
\* exactly the chunked dimensions.
UncoveredDimsAreChunkedDims ==
    IsCall(gridCall) =>
        LET m == gridCall.metadata
        IN \A i \in 1..Len(DtypeFields(m.dtype)) :
            LET c == gridCall.result.components[i]
                cell_rank == Len(c.fill_value.shape)
                fill_value_rank == Len(StoredFillValue(m, i).shape)
            IN /\ fill_value_rank <= cell_rank
               /\ 1..(cell_rank - fill_value_rank) = 1..Len(c.chunked_to_cell_dimensions)
               /\ ZeroStrideDims(c) = 1..Len(c.chunked_to_cell_dimensions)

\* C18, amended: for every component the stored fill value's rank is at most
\* the rank of the field's shape, hence at most the cell rank; the cell
\* dimensions with zero stride are the leading ones the stored fill value
\* does not cover; they include every chunked dimension, and are exactly the
\* chunked dimensions if and only if the stored fill value has the rank of
\* the field's shape.
UncoveredDimsIncludeChunkedDims ==
    IsCall(gridCall) =>
        LET m == gridCall.metadata
        IN \A i \in 1..Len(DtypeFields(m.dtype)) :
            LET c == gridCall.result.components[i]
                field == DtypeFields(m.dtype)[i]
                cell_rank == Len(c.fill_value.shape)
                fill_value_rank == Len(StoredFillValue(m, i).shape)
                chunked == 1..Len(c.chunked_to_cell_dimensions)
            IN /\ fill_value_rank <= Len(field.field_shape)
               /\ fill_value_rank <= cell_rank
               /\ ZeroStrideDims(c) = 1..(cell_rank - fill_value_rank)
               /\ chunked \subseteq ZeroStrideDims(c)
               /\ ZeroStrideDims(c) = chunked <=> fill_value_rank = Len(field.field_shape)

\* A grid was built for a field of shape (3) without a declared fill value:
\* the field's own dimension is not covered by the rank-0 fill value.
FieldDimUncovered ==
    /\ IsCall(gridCall)
    /\ gridCall.metadata.dtype = "[v:<i2(3)]"
    /\ gridCall.metadata.rank = 2
    /\ ~gridCall.metadata.fill_value[1].valid
    /\ ZeroStrideDims(gridCall.result.components[1]) = 1..3

(***************************************************************************)
(* SpecRegistry: the driver registry. DriverRegistration objects register  *)
(* driver classes at static initialization; JSON specs are then resolved   *)
(* through the registry.                                                   *)
(***************************************************************************)
MaxRegistrations == 3

\* The driver classes of the process: their id and json_binder members. Two
\* of them claim the same id.
DriverClasses ==
    {[id |-> "zarr", json_binder |-> "ZarrDriver::json_binder"],
     [id |-> "n5", json_binder |-> "N5Driver::json_binder"],
     [id |-> "memory", json_binder |-> "MemoryDriver::json_binder"],
     [id |-> "zarr", json_binder |-> "OtherZarrDriver::json_binder"]}

AlreadyRegistered == [code |-> "fatal", message |-> "already registered"]

DriverNotFound == [code |-> "invalid_argument", message |-> "driver not found"]

\* JsonRegistry::Register (internal/json_registry.h): adds the entry; an id
\* that is already in the table is a fatal error and the table stays as it is.
Register(table, id, binder) ==
    IF \E e \in table : e.id = id
    THEN [status |-> AlreadyRegistered, registry |-> table]
    ELSE [status |-> Ok, registry |-> table \cup {[id |-> id, binder |-> binder]}]

\* A registration that replaces the entry of an id already in the table.
DriverRegistrationOverwrites(table, Derived) ==
    [status |-> Ok,
     registry |-> {e \in table : e.id # Derived.id}
                    \cup {[id |-> Derived.id, binder |-> Derived.json_binder]}]

\* The constructor of DriverRegistration<Derived>: registers the class's
\* json_binder under the class's id.
DriverRegistration(table, Derived) == Register(table, Derived.id, Derived.json_binder)

\* What a registered binder does with the JSON spec: the zarr driver's is
\* json_binder above; the others accept the spec.
ApplyBinder(binder, doc) ==
    IF binder = "ZarrDriver::json_binder" THEN SpecFromJson(doc)
    ELSE [status |-> Ok, spec |-> [binder |-> binder, path |-> doc.path]]

\* JsonRegistry::LoadKey and the load through the entry found
\* (internal/json_registry.h): the "driver" member is looked up; an id that
\* is not in the table is an error, otherwise the entry's binder loads the
\* spec and its result is returned as it is.
Resolve(table, doc) ==
    LET found == {e \in table : e.id = doc.driver}
    IN IF found = {} THEN [status |-> DriverNotFound, spec |-> NoCall]
       ELSE ApplyBinder((CHOOSE e \in found : TRUE).binder, doc)

\* The JSON specs resolved: each known or unknown driver id with a zarr spec
\* that loads, one whose key_encoding contradicts its metadata, and one with
\* an empty "metadata".
RegistryDocuments ==
    {[driver |-> id, path |-> <<"a", "/">>,
      metadata |-> MetadataMember(Unset, Unset, Unset, s[1]),
      key_encoding |-> s[2], field |-> Unset] :
        id \in {"zarr", "n5", "memory", "json"},
        s \in {<<Some("."), Some(".")>>, <<Some("."), Some("/")>>, <<Unset, Unset>>}}

InitRegistry ==
    /\ registry = {}
    /\ regLog = <<>>
    /\ regCall = NoCall
    /\ IdleCore /\ IdleBind /\ IdleCodec /\ IdleFill /\ IdleGrid /\ IdleBounds
    /\ IdlePromise

\* A fatal error ends the process.
RegistryRunning == IsCall(regCall) => regCall.result.status # AlreadyRegistered

\* The constructor of one more DriverRegistration object runs.
RegisterDriver(Derived) ==
    /\ RegistryRunning
    /\ Len(regLog) < MaxRegistrations
    /\ LET result == DriverRegistration(registry, Derived)
       IN /\ registry' = result.registry
          /\ regCall' = [op |-> "register", driver |-> Derived, before |-> registry,
                         result |-> result]
    /\ regLog' = Append(regLog, Derived)
    /\ UNCHANGED <<coreVars, bindVars, codecVars, fillVars, gridVars, boundsVars,
                   promiseVars>>

\* A JSON spec is resolved.
ResolveDocument(doc) ==
    /\ RegistryRunning
    /\ regCall' = [op |-> "resolve", doc |-> doc, before |-> registry,
                   result |-> Resolve(registry, doc)]
    /\ UNCHANGED <<registry, regLog>>
    /\ UNCHANGED <<coreVars, bindVars, codecVars, fillVars, gridVars, boundsVars,
                   promiseVars>>

NextRegistry ==
    \/ \E Derived \in DriverClasses : RegisterDriver(Derived)
    \/ \E doc \in RegistryDocuments : ResolveDocument(doc)

SpecRegistry == InitRegistry /\ [][NextRegistry]_vars

\* The registrations made before position n of the log that name the id.
RegisteredBefore(n, id) == {i \in 1..(n - 1) : regLog[i].id = id}

\* C19: the table holds one entry per id, that of the first registration of
\* the id; resolving a spec fails with driver-not-found exactly when no
\* registration named its "driver", and otherwise returns what the binder of
\* the first registration of that id returns, whatever was registered before
\* or after it; registering an id a second time fails and leaves the table
\* as it was.
ResolvedByNameOnly ==
    /\ \A e \in registry :
            \E i \in 1..Len(regLog) :
                /\ regLog[i].id = e.id
                /\ regLog[i].json_binder = e.binder
                /\ RegisteredBefore(i, e.id) = {}
    /\ IsCall(regCall) /\ regCall.op = "resolve" =>
            LET named == {i \in 1..Len(regLog) : regLog[i].id = regCall.doc.driver}
            IN /\ regCall.result.status = DriverNotFound <=> named = {}
               /\ named # {} =>
                    regCall.result =
                        ApplyBinder(
                            regLog[CHOOSE i \in named : \A j \in named : i <= j].json_binder,
                            regCall.doc)
    /\ IsCall(regCall) /\ regCall.op = "register" =>
            /\ regCall.result.status = AlreadyRegistered
                    <=> RegisteredBefore(Len(regLog), regCall.driver.id) # {}
            /\ regCall.result.status = AlreadyRegistered => registry = regCall.before

\* The zarr driver was registered after another driver, and a spec naming it
\* was resolved by its binder, which refused the contradicting key_encoding.
ResolvedZarrRegisteredSecond ==
    /\ Len(regLog) = 2
    /\ regLog[1].id = "n5"
    /\ regLog[2].json_binder = "ZarrDriver::json_binder"
    /\ IsCall(regCall) /\ regCall.op = "resolve"
    /\ regCall.doc.driver = "zarr"
    /\ regCall.result.status = ValueMismatch

(***************************************************************************)
(* SpecBounds: DataCache::GetChunkGridBounds, writing into the bounds and  *)
(* implicit-bound buffers of its caller.                                   *)
(***************************************************************************)
\* What the caller's buffers may hold before the call, for each rank: origins
\* 0 or 7, sizes 1, and every bit pattern that is uniform over the
\* dimensions.
PriorBounds ==
    UNION {[origin : {[d \in 1..r |-> o] : o \in {0, 7}},
            shape : {[d \in 1..r |-> 1]},
            implicit_lower_bounds : {[d \in 1..r |-> b] : b \in BOOLEAN},
            implicit_upper_bounds : {[d \in 1..r |-> b] : b \in BOOLEAN}] :
           r \in 0..MaxRank}

\* The three asserts: the buffers have the rank of the metadata.
BoundsAssertionsHold(metadata, bounds) ==
    /\ Len(bounds.origin) = Len(metadata.shape)
    /\ Len(bounds.origin) = Len(bounds.implicit_lower_bounds)
    /\ Len(bounds.origin) = Len(bounds.implicit_upper_bounds)

\* GetChunkGridBounds without the std::fill of the origin.
GetChunkGridBoundsKeepOrigin(metadata, bounds) ==
    [origin |-> bounds.origin,
     shape |-> [d \in DOMAIN bounds.shape |-> metadata.shape[d]],
     implicit_lower_bounds |-> [d \in DOMAIN bounds.implicit_lower_bounds |-> FALSE],
     implicit_upper_bounds |-> [d \in DOMAIN bounds.implicit_upper_bounds |-> TRUE]]

\* DataCache::GetChunkGridBounds: the buffers after the call.
GetChunkGridBounds(metadata, bounds) ==
    [origin |-> [d \in DOMAIN bounds.origin |-> 0],
     shape |-> [d \in DOMAIN bounds.shape |-> metadata.shape[d]],
     implicit_lower_bounds |-> [d \in DOMAIN bounds.implicit_lower_bounds |-> FALSE],
     implicit_upper_bounds |-> [d \in DOMAIN bounds.implicit_upper_bounds |-> TRUE]]

InitBounds ==
    /\ bdBounds \in PriorBounds
    /\ bdCall = NoCall
    /\ IdleCore /\ IdleBind /\ IdleCodec /\ IdleFill /\ IdleGrid /\ IdleRegistry
    /\ IdlePromise

\* A call with a metadata of the buffers' rank.
GetBounds(metadata) ==
    /\ BoundsAssertionsHold(metadata, bdBounds)
    /\ bdBounds' = GetChunkGridBounds(metadata, bdBounds)
    /\ bdCall' = [metadata |-> metadata, before |-> bdBounds]
    /\ UNCHANGED <<coreVars, bindVars, codecVars, fillVars, gridVars, regVars,
                   promiseVars>>

NextBounds == \E metadata \in GridMetadatas : GetBounds(metadata)

SpecBounds == InitBounds /\ [][NextBounds]_vars

\* C20: after a call with a metadata of rank r, each of the r origins is 0,
\* the r sizes are the metadata's shape, the r lower bounds are explicit and
\* the r upper bounds are implicit, whatever the buffers held before and
\* whatever the metadata's other members are.
BoundsFromShapeOnly ==
    IsCall(bdCall) =>
        LET r == bdCall.metadata.rank
        IN /\ bdBounds.origin = [d \in 1..r |-> 0]
           /\ bdBounds.shape = bdCall.metadata.shape
           /\ bdBounds.implicit_lower_bounds = [d \in 1..r |-> FALSE]
           /\ bdBounds.implicit_upper_bounds = [d \in 1..r |-> TRUE]

\* A call on a rank-2 store of shape (4, 8) overwrote buffers that held
\* origin 7 and the opposite bits.
BoundsOverwritten ==
    /\ IsCall(bdCall)
    /\ bdCall.metadata.shape = <<4, 8>>
    /\ bdCall.before.origin = <<7, 7>>
    /\ bdCall.before.implicit_lower_bounds = <<TRUE, TRUE>>
    /\ bdCall.before.implicit_upper_bounds = <<FALSE, FALSE>>
    /\ bdBounds.origin = <<0, 0>>

(***************************************************************************)
(* The chunk keys and the metadata key of one store path (SpecKey).        *)
(***************************************************************************)
\* The metadata storage key of the store whose path is the DataCache's key
\* prefix: OpenState hands spec().store.path to both.
MetadataKeyOfEntry ==
    GetMetadataStorageKey(
        GetMetadataCacheEntryKey([store_path |-> keyPrefix, selected_field |-> ""]))

\* C22: no chunk storage key of the entry is its metadata storage key: not
\* the key of the last GetChunkStorageKey call, and not the key of any index
\* tuple of the entry's rank (rank 0 included) with either separator.
ChunkKeyNeverMetadataKey ==
    /\ IsCall(keyCall) => keyCall.key # MetadataKeyOfEntry
    /\ \A cell_indices \in Tuples(keyRank, CellIndices) :
            \A dimension_separator \in DimensionSeparators :
                GetChunkStorageKey(keyPrefix, cell_indices, dimension_separator)
                    # MetadataKeyOfEntry

\* The chunk key of a rank-0 store was asked for: it is the bare prefix.
RankZeroKeyIsPrefix ==
    /\ IsCall(keyCall)
    /\ keyRank = 0
    /\ keyPrefix = <<"a", "/">>
    /\ keyCall.key = keyPrefix

(***************************************************************************)
(* SpecPromise: RegisteredDriverSpec::DoOpen (kvstore/registry.h) and the  *)
(* promise held by the DriverOpenState it hands to Derived::Open.          *)
(***************************************************************************)

\* The most copies of one open state, each holding the promise, at a time.
MaxPromiseRefs == 3

DriverAddresses == {"0x10", "0x20"}

ErrorStatuses == {"not_found", "invalid_argument", "unavailable"}

\* Result<T> holding a value, and holding an error status.
ResultValue(value) == [ok |-> TRUE, value |-> value]

ResultError(status) == [ok |-> FALSE, status |-> status]

\* PromiseFuturePair<T>::Make(initial): one promise handle and one future on
\* a shared state whose result starts as `initial` and is not ready.
MakePromiseFuturePair(initial) == [result |-> initial, ready |-> FALSE, refs |-> 1]

\* Promise::SetResult: a result that is already committed stays; otherwise
\* the result is replaced, and `commits` says whether that alone marks the
\* promise ready.
PromiseSetResult(state, result, commits) ==
    IF state.ready THEN state
    ELSE [state EXCEPT !.result = result, !.ready = commits]

\* Copying a DriverOpenState copies its promise_ member.
CopyPromise(state) == [state EXCEPT !.refs = @ + 1]

\* Dropping a promise handle; dropping the last one marks the promise ready
\* with the result it holds.
ReleasePromise(state) ==
    [state EXCEPT !.refs = @ - 1, !.ready = @ \/ state.refs = 1]

\* A DoOpen whose promise/future pair is made without an initial result.
DoOpenNoInitialResult(Derived, address) ==
    LET driver == [class |-> Derived.id, address |-> address]
    IN  [driver |-> driver,
         promise |-> MakePromiseFuturePair(ResultError("unknown")),
         set_error |-> FALSE]

\* RegisteredDriverSpec<Derived>::DoOpen: allocates the driver, makes the
\* pair with the driver as the initial result and moves the promise into the
\* open state passed to Derived::Open.
DoOpen(Derived, address) ==
    LET driver == [class |-> Derived.id, address |-> address]
    IN  [driver |-> driver,
         promise |-> MakePromiseFuturePair(ResultValue(driver)),
         set_error |-> FALSE]

\* DriverOpenState::SetError
SetError(open_state, status, commits) ==
    [open_state EXCEPT !.promise = PromiseSetResult(@, ResultError(status), commits)]

InitPromise ==
    /\ prSetCommits \in BOOLEAN
    /\ prShared = NoCall
    /\ IdleCore /\ IdleBind /\ IdleCodec /\ IdleFill /\ IdleGrid /\ IdleRegistry
    /\ IdleBounds

PromiseHeld == IsCall(prShared) /\ prShared.promise.refs > 0

\* DoOpen on a registered driver spec; a later open starts once the earlier
\* one has completed.
OpenRegisteredDriver ==
    /\ ~PromiseHeld
    /\ \E Derived \in DriverClasses : \E address \in DriverAddresses :
            prShared' = DoOpen(Derived, address)
    /\ UNCHANGED <<coreVars, bindVars, codecVars, fillVars, gridVars, regVars,
                   boundsVars, prSetCommits>>

\* Derived::Open, or a continuation of it, keeps a copy of the open state.
CopyOpenState ==
    /\ PromiseHeld
    /\ prShared.promise.refs < MaxPromiseRefs
    /\ prShared' = [prShared EXCEPT !.promise = CopyPromise(@)]
    /\ UNCHANGED <<coreVars, bindVars, codecVars, fillVars, gridVars, regVars,
                   boundsVars, prSetCommits>>

\* A copy of the open state is destroyed.
ReleaseOpenState ==
    /\ PromiseHeld
    /\ prShared' = [prShared EXCEPT !.promise = ReleasePromise(@)]
    /\ UNCHANGED <<coreVars, bindVars, codecVars, fillVars, gridVars, regVars,
                   boundsVars, prSetCommits>>

\* Derived::Open, or a continuation of it, reports a failure.
OpenSetError ==
    /\ PromiseHeld
    /\ \E status \in ErrorStatuses :
            prShared' = [SetError(prShared, status, prSetCommits)
                            EXCEPT !.set_error = TRUE]
    /\ UNCHANGED <<coreVars, bindVars, codecVars, fillVars, gridVars, regVars,
                   boundsVars, prSetCommits>>

NextPromise ==
    \/ OpenRegisteredDriver
    \/ CopyOpenState
    \/ ReleaseOpenState
    \/ OpenSetError

SpecPromise == InitPromise /\ [][NextPromise]_vars

\* The future of DoOpen is not ready while any copy of the open state's
\* promise is held; after the last release it is ready, with the driver when
\* SetError was not called and with an error when it was.
FutureNotReadyWhilePromiseHeld ==
    IsCall(prShared) =>
        /\ prShared.promise.refs > 0 => ~prShared.promise.ready
        /\ prShared.promise.refs = 0 =>
                /\ prShared.promise.ready
                /\ prShared.promise.result.ok = ~prShared.set_error
                /\ ~prShared.set_error =>
                        prShared.promise.result = ResultValue(prShared.driver)

\* C21: the future of DoOpen starts in a success state holding the newly
\* allocated driver; as long as SetError has not been called it is not ready
\* while a copy of the promise is held and is ready with that driver once the
\* last reference is released; once SetError has been called it holds an
\* error, never the driver, and is ready at the latest when the last
\* reference is released.
FutureReadyOnReleaseOrError ==
    IsCall(prShared) =>
        /\ ~prShared.set_error =>
                /\ prShared.promise.result = ResultValue(prShared.driver)
                /\ prShared.promise.ready <=> prShared.promise.refs = 0
        /\ prShared.set_error =>
                /\ ~prShared.promise.result.ok
                /\ prShared.promise.result.status \in ErrorStatuses
                /\ prShared.promise.refs = 0 => prShared.promise.ready

\* SetError was called while two copies were held, and both are released.
ReadyWithErrorAfterLastRelease ==
    /\ IsCall(prShared)
    /\ prShared.set_error
    /\ prShared.promise.refs = 0
    /\ prShared.promise.ready
    /\ prShared.promise.result = ResultError("not_found")
====
